---- MODULE Spec2Model ----
(***************************************************************************)
(* The adaptive bitrate controller of the streaming host                   *)
(* (stream::auto_bitrate_controller_t, src/src/auto_bitrate.cpp).          *)
(*                                                                         *)
(* Representation of the C++ values:                                       *)
(*   - time points are integers, milliseconds of the steady clock;         *)
(*   - a double adjustment factor f is the integer 100 * f (all factors    *)
(*     the code builds are 1.0 +/- pct / 100.0 with pct an int);           *)
(*   - loss_percentage is an exact fraction [num, den], den > 0;           *)
(*   - int is 32 bits wide: a double to int cast out of range is           *)
(*     undefined and modelled as a choice (CastOutcomes).                  *)
(***************************************************************************)
EXTENDS Integers, Sequences, FiniteSets, TLC

VARIABLES
  now,             \* std::chrono::steady_clock::now(), in ms
  settings,        \* config::get_auto_bitrate_settings()
  sessions,        \* the session_t objects: client options of each session
  session_states,  \* auto_bitrate_controller_t::session_states
  ret,             \* the last const query: operation, session, result
  encoder          \* per session, when the encoder hook was last invoked, when it
                   \* was invoked before that, and when it last refused

VARIABLES
  queue,           \* a safe::queue_t: _continue, _queue, and the elements raised
  event,           \* a safe::event_t: _continue, _status
  threads,         \* the threads calling into the queue or the event
  shared,          \* a safe::shared_t: _count, the object, the callbacks run
  cipher,          \* a plaintext length and the output buffer sized for it
  session_state,   \* session_t::state and the components observing it
  task_pool,       \* a task_pool_util::TaskPool: _tasks, _timer_tasks
  mail             \* a safe::mail_raw_t: id_to_post, and the posts it created

controller_vars == <<now, settings, sessions, session_states, ret, encoder>>

component_vars ==
  <<queue, event, threads, shared, cipher, session_state, task_pool, mail>>

vars == <<controller_vars, component_vars>>

-----------------------------------------------------------------------------
(* Bounds of the model *)

MaxTime == 5000

MaxAdjustments == 2

MaxLoopTime == 7000

(* Program constants *)

IntMax == 2147483647

IntMin == (-IntMax) - 1

OKAY == 0

POOR == 1

NoTime == 0 - 1

(* The value of a component that takes no part in a specification. *)
Unused == "unused"

Sessions == {"A"}

-----------------------------------------------------------------------------
(* config.h: struct video_t defaults, copied by get_auto_bitrate_settings *)

DefaultSettings ==
  [ min_kbps                 |-> 1,
    max_kbps                 |-> 0,
    adjustment_interval_ms   |-> 3000,
    min_adjustment_pct       |-> 5,
    loss_severe_pct          |-> 10,
    loss_moderate_pct        |-> 5,
    loss_mild_pct            |-> 1,
    decrease_severe_pct      |-> 25,
    decrease_moderate_pct    |-> 12,
    decrease_mild_pct        |-> 5,
    increase_good_pct        |-> 5,
    good_stability_ms        |-> 5000,
    increase_min_interval_ms |-> 3000,
    poor_status_cap_pct      |-> 25,
    max_bitrate_cap          |-> 0 ]

(* stream.h: session_t, the fields the controller reads *)
DefaultSession ==
  [ auto_bitrate_enabled  |-> TRUE,
    auto_bitrate_min_kbps |-> 0,
    auto_bitrate_max_kbps |-> 0,
    bitrate               |-> 10000,   \* config.monitor.bitrate
    framerate             |-> 60 ]     \* config.monitor.framerate

-----------------------------------------------------------------------------
(* Arithmetic helpers *)

Max(a, b) == IF a > b THEN a ELSE b

Min(a, b) == IF a < b THEN a ELSE b

Abs(a) == IF a < 0 THEN -a ELSE a

RECURSIVE Gcd(_, _)
Gcd(a, b) == IF b = 0 THEN a ELSE Gcd(b, a % b)

(* A fraction in lowest terms with a positive denominator. *)
Frac(n, d) ==
  LET g == Gcd(Abs(n), Abs(d))
      s == IF d < 0 THEN -1 ELSE 1
  IN  [num |-> s * (n \div g), den |-> s * (d \div g)]

Whole(n) == [num |-> n, den |-> 1]

(* double > int comparison:  l > t *)
LossAbove(l, t) == l.num > t * l.den

(* Outcomes of static_cast<int>(double) for a value outside the range of    *)
(* int: undefined behaviour; x86-64 yields INT_MIN, AArch64 saturates.      *)
CastOutcomes == {IntMin, IntMax}

(* static_cast<int>(current * factor), the factor given in hundredths:      *)
(* truncation toward zero of current * f / 100, computed without leaving    *)
(* the 32-bit range.  The result is a set: one value, or CastOutcomes.      *)
ScaleBitrate(current, f) ==
  LET c    == Abs(current)
      g    == Abs(f)
      neg  == (current < 0) # (f < 0)
      q    == c \div 100
      r    == c % 100
      t    == (r * g) \div 100
      fits == (g = 0) \/ (q <= (IntMax - t) \div g)
  IN  IF ~fits THEN CastOutcomes
      ELSE {IF neg THEN -(q * g + t) ELSE q * g + t}

(* The percentages p for which binary64 rounds |(1.0 - p/100.0) - 1.0|,     *)
(* resp. |(1.0 + p/100.0) - 1.0|, to a value below p/100.0 (p in 0..200).   *)
DecRoundsLow == {8, 9, 10, 11, 18, 19, 20, 21, 22, 23, 41, 42, 43, 44, 45, 46}

IncRoundsLow ==
  {13, 15, 16, 17, 18, 19, 20, 21, 22, 23, 36, 38, 40, 41, 42, 43, 44, 45, 46,
   57, 59, 61, 63, 65, 67, 82, 84, 86, 88, 90, 92, 101, 105, 109, 114, 118,
   122, 126, 130, 134, 139, 143, 147, 151, 155, 159, 164, 168, 172, 176, 180,
   184, 189, 193, 197}

(* std::abs(adjustment_factor - 1.0) < min_adjustment_pct / 100.0 in        *)
(* binary64, the factor f in hundredths: the exact comparison, except that  *)
(* a difference equal to the threshold can round to just below it.          *)
FactorDeltaBelow(f, m) ==
  \/ Abs(f - 100) < m
  \/ /\ Abs(f - 100) = m
     /\ \/ f < 100 /\ m \in DecRoundsLow
        \/ f > 100 /\ m \in IncRoundsLow

-----------------------------------------------------------------------------
(* auto_bitrate_controller_t: the const helpers *)

HasState(states, s) == s \in DOMAIN states

(* get_adjustment_factor with the loss bands closed at the threshold (>=) *)
get_adjustment_factor_inclusive(state, t, st) ==
  LET severe_threshold       == Max(0, st.loss_severe_pct)
      moderate_threshold     == Max(0, st.loss_moderate_pct)
      mild_threshold         == Max(0, st.loss_mild_pct)
      l                      == state.loss_percentage
      AtLeast(th)            == l.num >= th * l.den
      time_since_last_adjustment == t - state.last_adjustment_time
      base == IF AtLeast(severe_threshold)
                THEN 100 - Max(0, st.decrease_severe_pct)
              ELSE IF AtLeast(moderate_threshold)
                THEN 100 - Max(0, st.decrease_moderate_pct)
              ELSE IF AtLeast(mild_threshold)
                THEN 100 - Max(0, st.decrease_mild_pct)
              ELSE 100 + Max(0, st.increase_good_pct)
      capped == IF state.connection_status = POOR
                  THEN Min(base, 100 - Max(0, st.poor_status_cap_pct))
                  ELSE base
  IN  IF ~AtLeast(mild_threshold)
         /\ ~(time_since_last_adjustment >= st.good_stability_ms
              /\ state.connection_status = OKAY)
        THEN 100
      ELSE IF capped > 100 /\ time_since_last_adjustment < st.increase_min_interval_ms
        THEN 100
      ELSE capped

(* get_adjustment_factor without the stability window of the good range *)
get_adjustment_factor_no_stability(state, t, st) ==
  LET l == state.loss_percentage
      time_since_last_adjustment == t - state.last_adjustment_time
      base == IF LossAbove(l, Max(0, st.loss_severe_pct))
                THEN 100 - Max(0, st.decrease_severe_pct)
              ELSE IF LossAbove(l, Max(0, st.loss_moderate_pct))
                THEN 100 - Max(0, st.decrease_moderate_pct)
              ELSE IF LossAbove(l, Max(0, st.loss_mild_pct))
                THEN 100 - Max(0, st.decrease_mild_pct)
              ELSE 100 + Max(0, st.increase_good_pct)
      capped == IF state.connection_status = POOR
                  THEN Min(base, 100 - Max(0, st.poor_status_cap_pct))
                  ELSE base
  IN  IF ~LossAbove(l, Max(0, st.loss_mild_pct)) /\ state.connection_status # OKAY
        THEN 100
      ELSE IF capped > 100 /\ time_since_last_adjustment < st.increase_min_interval_ms
        THEN 100
      ELSE capped

(* get_adjustment_factor without the connection status override *)
get_adjustment_factor_no_poor_cap(state, t, st) ==
  LET l == state.loss_percentage
      time_since_last_adjustment == t - state.last_adjustment_time
      base == IF LossAbove(l, Max(0, st.loss_severe_pct))
                THEN 100 - Max(0, st.decrease_severe_pct)
              ELSE IF LossAbove(l, Max(0, st.loss_moderate_pct))
                THEN 100 - Max(0, st.decrease_moderate_pct)
              ELSE IF LossAbove(l, Max(0, st.loss_mild_pct))
                THEN 100 - Max(0, st.decrease_mild_pct)
              ELSE 100 + Max(0, st.increase_good_pct)
  IN  IF ~LossAbove(l, Max(0, st.loss_mild_pct))
         /\ ~(time_since_last_adjustment >= st.good_stability_ms
              /\ state.connection_status = OKAY)
        THEN 100
      ELSE IF base > 100 /\ time_since_last_adjustment < st.increase_min_interval_ms
        THEN 100
      ELSE base

(* get_adjustment_factor without the cooldown for increases *)
get_adjustment_factor_no_cooldown(state, t, st) ==
  LET l == state.loss_percentage
      time_since_last_adjustment == t - state.last_adjustment_time
      base == IF LossAbove(l, Max(0, st.loss_severe_pct))
                THEN 100 - Max(0, st.decrease_severe_pct)
              ELSE IF LossAbove(l, Max(0, st.loss_moderate_pct))
                THEN 100 - Max(0, st.decrease_moderate_pct)
              ELSE IF LossAbove(l, Max(0, st.loss_mild_pct))
                THEN 100 - Max(0, st.decrease_mild_pct)
              ELSE 100 + Max(0, st.increase_good_pct)
  IN  IF ~LossAbove(l, Max(0, st.loss_mild_pct))
         /\ ~(time_since_last_adjustment >= st.good_stability_ms
              /\ state.connection_status = OKAY)
        THEN 100
      ELSE IF state.connection_status = POOR
        THEN Min(base, 100 - Max(0, st.poor_status_cap_pct))
      ELSE base

(* get_adjustment_factor that does not look at connection_status *)
get_adjustment_factor_status_blind(state, t, st) ==
  LET severe_threshold       == Max(0, st.loss_severe_pct)
      moderate_threshold     == Max(0, st.loss_moderate_pct)
      mild_threshold         == Max(0, st.loss_mild_pct)
      severe_reduction_pct   == Max(0, st.decrease_severe_pct)
      moderate_reduction_pct == Max(0, st.decrease_moderate_pct)
      mild_reduction_pct     == Max(0, st.decrease_mild_pct)
      increase_pct           == Max(0, st.increase_good_pct)
      poor_status_cap_pct    == Max(0, st.poor_status_cap_pct)
      time_since_last_adjustment == t - state.last_adjustment_time
      good == ~LossAbove(state.loss_percentage, mild_threshold)
      base == IF LossAbove(state.loss_percentage, severe_threshold)
                THEN 100 - severe_reduction_pct
              ELSE IF LossAbove(state.loss_percentage, moderate_threshold)
                THEN 100 - moderate_reduction_pct
              ELSE IF LossAbove(state.loss_percentage, mild_threshold)
                THEN 100 - mild_reduction_pct
              ELSE 100 + increase_pct
      capped == base
  IN  IF good /\ ~(time_since_last_adjustment >= st.good_stability_ms)
        THEN 100                       \* return 1.0: no change
      ELSE IF capped > 100 /\ time_since_last_adjustment < st.increase_min_interval_ms
        THEN 100                       \* too soon for increase
      ELSE capped

(* get_adjustment_factor(state, now, settings), in hundredths *)
get_adjustment_factor(state, t, st) ==
  LET severe_threshold       == Max(0, st.loss_severe_pct)
      moderate_threshold     == Max(0, st.loss_moderate_pct)
      mild_threshold         == Max(0, st.loss_mild_pct)
      severe_reduction_pct   == Max(0, st.decrease_severe_pct)
      moderate_reduction_pct == Max(0, st.decrease_moderate_pct)
      mild_reduction_pct     == Max(0, st.decrease_mild_pct)
      increase_pct           == Max(0, st.increase_good_pct)
      poor_status_cap_pct    == Max(0, st.poor_status_cap_pct)
      time_since_last_adjustment == t - state.last_adjustment_time
      good == ~LossAbove(state.loss_percentage, mild_threshold)
      base == IF LossAbove(state.loss_percentage, severe_threshold)
                THEN 100 - severe_reduction_pct
              ELSE IF LossAbove(state.loss_percentage, moderate_threshold)
                THEN 100 - moderate_reduction_pct
              ELSE IF LossAbove(state.loss_percentage, mild_threshold)
                THEN 100 - mild_reduction_pct
              ELSE 100 + increase_pct
      capped == IF state.connection_status = POOR
                  THEN Min(base, 100 - poor_status_cap_pct)
                  ELSE base
  IN  IF good /\ ~(time_since_last_adjustment >= st.good_stability_ms
                   /\ state.connection_status = OKAY)
        THEN 100                       \* return 1.0: no change
      ELSE IF capped > 100 /\ time_since_last_adjustment < st.increase_min_interval_ms
        THEN 100                       \* too soon for increase
      ELSE capped

(* should_adjust_bitrate without the minimum interval check *)
should_adjust_bitrate_unpaced(states, s, t) ==
  IF ~sessions[s].auto_bitrate_enabled THEN FALSE
  ELSE IF ~HasState(states, s) THEN FALSE
  ELSE
    LET adjustment_factor == get_adjustment_factor(states[s], t, settings)
        min_adjustment_pct == IF settings.min_adjustment_pct < 0
                                THEN 5 ELSE settings.min_adjustment_pct
    IN  ~((min_adjustment_pct = 0 /\ adjustment_factor = 100)
          \/ (min_adjustment_pct > 0
              /\ FactorDeltaBelow(adjustment_factor, min_adjustment_pct)))

(* should_adjust_bitrate that takes a minimum of 0 for "unset" (default 5) *)
should_adjust_bitrate_zero_is_default(states, s, t) ==
  IF ~sessions[s].auto_bitrate_enabled THEN FALSE
  ELSE IF ~HasState(states, s) THEN FALSE
  ELSE
    LET time_since_last_adjustment == t - states[s].last_adjustment_time
        min_interval_ms == IF settings.adjustment_interval_ms <= 0
                             THEN 3000 ELSE settings.adjustment_interval_ms
        adjustment_factor == get_adjustment_factor(states[s], t, settings)
        min_adjustment_pct == IF settings.min_adjustment_pct <= 0
                                THEN 5 ELSE settings.min_adjustment_pct
    IN  /\ time_since_last_adjustment >= min_interval_ms
        /\ ~FactorDeltaBelow(adjustment_factor, min_adjustment_pct)

(* should_adjust_bitrate(session) *)
should_adjust_bitrate(states, s, t) ==
  IF ~sessions[s].auto_bitrate_enabled THEN FALSE
  ELSE IF ~HasState(states, s) THEN FALSE
  ELSE
    LET state == states[s]
        time_since_last_adjustment == t - state.last_adjustment_time
        min_interval_ms == IF settings.adjustment_interval_ms <= 0
                             THEN 3000 ELSE settings.adjustment_interval_ms
        adjustment_factor == get_adjustment_factor(state, t, settings)
        min_adjustment_pct == IF settings.min_adjustment_pct < 0
                                THEN 5 ELSE settings.min_adjustment_pct
    IN  IF time_since_last_adjustment < min_interval_ms THEN FALSE
        ELSE IF (min_adjustment_pct = 0 /\ adjustment_factor = 100)
                \/ (min_adjustment_pct > 0
                    /\ FactorDeltaBelow(adjustment_factor, min_adjustment_pct))
          THEN FALSE
        ELSE TRUE

(* clamp_bitrate without the upper bound *)
clamp_bitrate_no_upper(bitrate, min_bitrate, max_bitrate) ==
  IF bitrate < min_bitrate THEN min_bitrate ELSE bitrate

(* clamp_bitrate(bitrate, min_bitrate, max_bitrate) *)
clamp_bitrate(bitrate, min_bitrate, max_bitrate) ==
  IF bitrate < min_bitrate THEN min_bitrate
  ELSE IF bitrate > max_bitrate THEN max_bitrate
  ELSE bitrate

(* the bounds without the server's max_bitrate cap *)
bitrate_bounds_no_cap(session, st) ==
  LET server_min == IF st.min_kbps <= 0 THEN 1 ELSE st.min_kbps
      server_max == IF st.max_kbps <= 0 THEN 0 ELSE st.max_kbps
      min0 == IF session.auto_bitrate_min_kbps > 0
                THEN session.auto_bitrate_min_kbps ELSE server_min
      min1 == IF min0 < server_min THEN server_min ELSE min0
      max1 == IF session.auto_bitrate_max_kbps > 0
                THEN (IF server_max > 0 /\ session.auto_bitrate_max_kbps > server_max
                        THEN server_max ELSE session.auto_bitrate_max_kbps)
              ELSE IF server_max > 0 THEN server_max
              ELSE IF session.bitrate < 1 THEN 1000
              ELSE session.bitrate
  IN  [min_bitrate |-> IF min1 > max1 THEN max1 ELSE min1, max_bitrate |-> max1]

(* the bounds with a client minimum that is not raised to the server's *)
bitrate_bounds_client_min_wins(session, st) ==
  LET client_min == IF session.auto_bitrate_min_kbps > 0
                      THEN session.auto_bitrate_min_kbps ELSE 0
      client_max == IF session.auto_bitrate_max_kbps > 0
                      THEN session.auto_bitrate_max_kbps ELSE 0
      server_min == IF st.min_kbps <= 0 THEN 1 ELSE st.min_kbps
      server_max == IF st.max_kbps <= 0
                      THEN (IF st.max_bitrate_cap > 0 THEN st.max_bitrate_cap ELSE 0)
                    ELSE IF st.max_bitrate_cap > 0 /\ st.max_bitrate_cap < st.max_kbps
                      THEN st.max_bitrate_cap
                    ELSE st.max_kbps
      min0 == IF client_min > 0 THEN client_min ELSE server_min
      min1 == min0
      max1 == IF client_max > 0
                THEN (IF server_max > 0 /\ client_max > server_max
                        THEN server_max ELSE client_max)
              ELSE IF server_max > 0 THEN server_max
              ELSE IF session.bitrate < 1 THEN 1000
              ELSE session.bitrate
      min2 == IF min1 > max1 THEN max1 ELSE min1
  IN  [min_bitrate |-> IF min2 < 1 THEN 1 ELSE min2,
       max_bitrate |-> IF max1 < 1 THEN 1 ELSE max1]

(* calculate_new_bitrate, "Get min/max bounds": the final min_bitrate and   *)
(* max_bitrate handed to clamp_bitrate                                      *)
bitrate_bounds(session, st) ==
  LET client_min == IF session.auto_bitrate_min_kbps > 0
                      THEN session.auto_bitrate_min_kbps ELSE 0
      client_max == IF session.auto_bitrate_max_kbps > 0
                      THEN session.auto_bitrate_max_kbps ELSE 0
      server_min == IF st.min_kbps <= 0 THEN 1 ELSE st.min_kbps
      server_max == IF st.max_kbps <= 0
                      THEN (IF st.max_bitrate_cap > 0 THEN st.max_bitrate_cap ELSE 0)
                    ELSE IF st.max_bitrate_cap > 0 /\ st.max_bitrate_cap < st.max_kbps
                      THEN st.max_bitrate_cap
                    ELSE st.max_kbps
      min0 == IF client_min > 0 THEN client_min ELSE server_min
      min1 == IF server_min > 0 /\ min0 < server_min THEN server_min ELSE min0
      max1 == IF client_max > 0
                THEN (IF server_max > 0 /\ client_max > server_max
                        THEN server_max ELSE client_max)
              ELSE IF server_max > 0 THEN server_max
              ELSE IF session.bitrate < 1 THEN 1000
              ELSE session.bitrate
      min2 == IF min1 > max1 THEN max1 ELSE min1
  IN  [min_bitrate |-> IF min2 < 1 THEN 1 ELSE min2,
       max_bitrate |-> IF max1 < 1 THEN 1 ELSE max1]

(* calculate_new_bitrate(session): the set of values the call can return    *)
calculate_new_bitrate(states, s, t) ==
  IF ~sessions[s].auto_bitrate_enabled THEN {sessions[s].bitrate}
  ELSE IF ~HasState(states, s) THEN {sessions[s].bitrate}
  ELSE
    LET state == states[s]
        adjustment_factor == get_adjustment_factor(state, t, settings)
        b == bitrate_bounds(sessions[s], settings)
    IN  { clamp_bitrate(new_bitrate, b.min_bitrate, b.max_bitrate) :
            new_bitrate \in ScaleBitrate(state.current_bitrate_kbps, adjustment_factor) }

(* compute_loss_percentage that takes every framerate as fps *)
compute_loss_percentage_fps_only(states, s, lastGoodFrame, time_interval) ==
  IF ~HasState(states, s) THEN Whole(0)
  ELSE
    LET state == states[s]
        expected_frames == Frac(sessions[s].framerate * time_interval, 1000)
        expected_current_frame ==
          state.last_reported_good_frame + (expected_frames.num \div expected_frames.den)
        loss_count == IF lastGoodFrame < expected_current_frame
                        THEN expected_current_frame - lastGoodFrame ELSE 0
    IN  IF state.last_reported_good_frame = 0 THEN Whole(0)
        ELSE IF expected_frames.num <= 0 THEN Whole(0)
        ELSE Frac(loss_count * 100 * expected_frames.den, expected_frames.num)

(* compute_loss_percentage(session, lastGoodFrame, time_interval); the      *)
(* float expected_frames is kept as an exact fraction                       *)
compute_loss_percentage(states, s, lastGoodFrame, time_interval) ==
  IF ~HasState(states, s) THEN Whole(0)
  ELSE
    LET state == states[s]
        fr == IF sessions[s].framerate > 1000
                THEN Frac(sessions[s].framerate, 1000)
                ELSE Whole(sessions[s].framerate)
        expected_frames == Frac(fr.num * time_interval, fr.den * 1000)
        expected_current_frame ==
          state.last_reported_good_frame + (expected_frames.num \div expected_frames.den)
        loss_count == IF lastGoodFrame < expected_current_frame
                        THEN expected_current_frame - lastGoodFrame ELSE 0
    IN  IF state.last_reported_good_frame = 0 THEN Whole(0)
        ELSE IF expected_frames.num <= 0 THEN Whole(0)
        ELSE Frac(loss_count * 100 * expected_frames.den, expected_frames.num)

(* a new state whose current bitrate is left at 0 *)
new_state_without_bitrate(s, t) ==
  [ last_reported_good_frame        |-> 0,
    last_loss_stats_time            |-> t,
    last_adjustment_time            |-> t,
    last_successful_adjustment_time |-> t,
    session_start_time              |-> t,
    loss_percentage                 |-> Whole(0),
    connection_status               |-> OKAY,
    current_bitrate_kbps            |-> 0,
    adjustment_count                |-> 0 ]

(* get_or_create_state(session): the map after the call *)
new_state(s, t) ==
  [ last_reported_good_frame        |-> 0,
    last_loss_stats_time            |-> t,
    last_adjustment_time            |-> t,
    last_successful_adjustment_time |-> t,
    session_start_time              |-> t,
    loss_percentage                 |-> Whole(0),
    connection_status               |-> OKAY,
    current_bitrate_kbps            |-> sessions[s].bitrate,
    adjustment_count                |-> 0 ]

get_or_create_state(states, s, t) ==
  IF HasState(states, s) THEN states
  ELSE [x \in (DOMAIN states) \cup {s} |->
          IF x = s THEN new_state(s, t) ELSE states[x]]

(* get_stats(session, ...): the return value and the four outputs *)
get_stats(states, s) ==
  IF ~sessions[s].auto_bitrate_enabled \/ ~HasState(states, s)
    THEN [ok |-> FALSE]
  ELSE
    LET state == states[s]
        adjustment_duration ==
          state.last_successful_adjustment_time - state.session_start_time
    IN  [ok |-> TRUE,
         current_bitrate_kbps |-> state.current_bitrate_kbps,
         last_adjustment_time_ms |->
           IF state.adjustment_count > 0 /\ adjustment_duration >= 0
             THEN adjustment_duration ELSE 0,
         adjustment_count |-> state.adjustment_count,
         loss_percentage |-> state.loss_percentage]

-----------------------------------------------------------------------------
(* The calls on the controller.  ret holds what the last call returned,     *)
(* when it was one of the const queries.                                    *)

Call(op, s, value) == [op |-> op, session |-> s, value |-> value]

NoCall == Call("none", "none", <<>>)

NoLog == [last_attempt |-> NoTime, prev_attempt |-> NoTime, last_reject |-> NoTime]

(* The thread-safe primitives, the cipher and the session state take no     *)
(* part in the specifications of the controller.                            *)
ComponentsUnused ==
  /\ queue = Unused /\ event = Unused /\ threads = Unused
  /\ shared = Unused /\ cipher = Unused /\ session_state = Unused
  /\ task_pool = Unused /\ mail = Unused

(* process_loss_stats that sets the current bitrate back to the requested   *)
(* one                                                                      *)
process_loss_stats_overwrites_bitrate(states, s, lastGoodFrame, time_interval, t) ==
  IF ~sessions[s].auto_bitrate_enabled THEN states
  ELSE
    LET created == get_or_create_state(states, s, t)
    IN  [created EXCEPT
           ![s].loss_percentage =
              compute_loss_percentage(created, s, lastGoodFrame, time_interval),
           ![s].last_reported_good_frame = lastGoodFrame,
           ![s].last_loss_stats_time = t,
           ![s].current_bitrate_kbps = sessions[s].bitrate]

(* process_loss_stats(session, lastGoodFrame, time_interval): the map after *)
process_loss_stats(states, s, lastGoodFrame, time_interval, t) ==
  IF ~sessions[s].auto_bitrate_enabled THEN states
  ELSE
    LET created == get_or_create_state(states, s, t)
    IN  [created EXCEPT
           ![s].loss_percentage =
              compute_loss_percentage(created, s, lastGoodFrame, time_interval),
           ![s].last_reported_good_frame = lastGoodFrame,
           ![s].last_loss_stats_time = t]

ProcessLossStats(s, lastGoodFrame, time_interval) ==
  /\ session_states' =
       process_loss_stats(session_states, s, lastGoodFrame, time_interval, now)
  /\ ret' = NoCall
  /\ UNCHANGED <<now, settings, sessions, component_vars, encoder>>

(* process_loss_stats_direct(session, loss_percentage_loss_pct, lastGoodFrame, _) *)
process_loss_stats_direct(states, s, loss_pct, lastGoodFrame, t) ==
  IF ~sessions[s].auto_bitrate_enabled THEN states
  ELSE [get_or_create_state(states, s, t) EXCEPT
          ![s].loss_percentage = loss_pct,
          ![s].last_reported_good_frame = lastGoodFrame,
          ![s].last_loss_stats_time = t]

ProcessLossStatsDirect(s, loss_pct, lastGoodFrame) ==
  /\ session_states' =
       process_loss_stats_direct(session_states, s, loss_pct, lastGoodFrame, now)
  /\ ret' = NoCall
  /\ UNCHANGED <<now, settings, sessions, component_vars, encoder>>

(* process_connection_status without the check of auto_bitrate_enabled *)
process_connection_status_unguarded(states, s, status, t) ==
  [get_or_create_state(states, s, t) EXCEPT ![s].connection_status = status]

(* process_connection_status(session, status): the map after *)
process_connection_status(states, s, status, t) ==
  IF ~sessions[s].auto_bitrate_enabled THEN states
  ELSE [get_or_create_state(states, s, t) EXCEPT ![s].connection_status = status]

ProcessConnectionStatus(s, status) ==
  /\ session_states' = process_connection_status(session_states, s, status, now)
  /\ ret' = NoCall
  /\ UNCHANGED <<now, settings, sessions, component_vars, encoder>>

(* should_adjust_bitrate(session) const *)
ShouldAdjustBitrate(s) ==
  /\ ret' = Call("should_adjust_bitrate", s, should_adjust_bitrate(session_states, s, now))
  /\ UNCHANGED <<now, settings, sessions, component_vars, session_states, encoder>>

(* calculate_new_bitrate that stores the bitrate it computed *)
CalculateNewBitrateAndStore(s) ==
  /\ \E v \in calculate_new_bitrate(session_states, s, now) :
       /\ ret' = Call("calculate_new_bitrate", s, v)
       /\ session_states' =
            IF HasState(session_states, s) /\ sessions[s].auto_bitrate_enabled
              THEN [session_states EXCEPT ![s].current_bitrate_kbps = v]
              ELSE session_states
  /\ UNCHANGED <<now, settings, sessions, component_vars, encoder>>

(* calculate_new_bitrate(session) const *)
CalculateNewBitrate(s) ==
  /\ \E v \in calculate_new_bitrate(session_states, s, now) :
       ret' = Call("calculate_new_bitrate", s, v)
  /\ UNCHANGED <<now, settings, sessions, component_vars, session_states, encoder>>

(* confirm_bitrate_change that stamps last_adjustment_time only on success *)
confirm_bitrate_change_success_only(states, s, new_bitrate_kbps, success, t) ==
  IF ~sessions[s].auto_bitrate_enabled THEN states
  ELSE
    LET created == get_or_create_state(states, s, t)
        state   == created[s]
    IN  [created EXCEPT ![s] =
           IF success
             THEN IF new_bitrate_kbps # state.current_bitrate_kbps
                    THEN [state EXCEPT !.last_adjustment_time = t,
                                       !.adjustment_count = @ + 1,
                                       !.current_bitrate_kbps = new_bitrate_kbps,
                                       !.last_successful_adjustment_time = t]
                    ELSE [state EXCEPT !.last_adjustment_time = t]
             ELSE state]

(* confirm_bitrate_change that counts every successful confirmation *)
confirm_bitrate_change_always_counts(states, s, new_bitrate_kbps, success, t) ==
  IF ~sessions[s].auto_bitrate_enabled THEN states
  ELSE
    LET created == get_or_create_state(states, s, t)
        state   == created[s]
        paced   == [state EXCEPT !.last_adjustment_time = t]
    IN  [created EXCEPT ![s] =
           IF success
             THEN [paced EXCEPT !.adjustment_count = @ + 1,
                                !.current_bitrate_kbps = new_bitrate_kbps,
                                !.last_successful_adjustment_time = t]
             ELSE paced]

(* confirm_bitrate_change that applies the new bitrate whatever the encoder *)
(* answered                                                                 *)
confirm_bitrate_change_ignores_success(states, s, new_bitrate_kbps, success, t) ==
  IF ~sessions[s].auto_bitrate_enabled THEN states
  ELSE
    LET created == get_or_create_state(states, s, t)
        state   == created[s]
        paced   == [state EXCEPT !.last_adjustment_time = t]
    IN  [created EXCEPT ![s] =
           IF new_bitrate_kbps # state.current_bitrate_kbps
             THEN [paced EXCEPT !.adjustment_count = @ + 1,
                                !.current_bitrate_kbps = new_bitrate_kbps,
                                !.last_successful_adjustment_time = t]
             ELSE paced]

(* confirm_bitrate_change that records the attempt and nothing else *)
confirm_bitrate_change_stamp_only(states, s, new_bitrate_kbps, success, t) ==
  IF ~sessions[s].auto_bitrate_enabled THEN states
  ELSE [get_or_create_state(states, s, t) EXCEPT ![s].last_adjustment_time = t]

(* confirm_bitrate_change(session, new_bitrate_kbps, success): the map after *)
confirm_bitrate_change(states, s, new_bitrate_kbps, success, t) ==
  IF ~sessions[s].auto_bitrate_enabled THEN states
  ELSE
    LET created == get_or_create_state(states, s, t)
        state   == created[s]
        paced   == [state EXCEPT !.last_adjustment_time = t]
    IN  [created EXCEPT ![s] =
           IF success /\ new_bitrate_kbps # state.current_bitrate_kbps
             THEN [paced EXCEPT !.adjustment_count = @ + 1,
                                !.current_bitrate_kbps = new_bitrate_kbps,
                                !.last_successful_adjustment_time = t]
             ELSE paced]

(* The model stops counting at MaxAdjustments (uint32_t in the code). *)
CountBelowMax(s) ==
  HasState(session_states, s) =>
    session_states[s].adjustment_count < MaxAdjustments

ConfirmBitrateChange(s, new_bitrate_kbps, success) ==
  /\ CountBelowMax(s)
  /\ session_states' =
       confirm_bitrate_change(session_states, s, new_bitrate_kbps, success, now)
  /\ ret' = NoCall
  /\ UNCHANGED <<now, settings, sessions, component_vars, encoder>>

(* reset that leaves the session's state in the map *)
reset_keeps_state(states, s) == states

(* a reset that clears the whole map *)
reset_clears_every_session(states, s) == << >>

(* reset(session): the map after *)
reset(states, s) == [x \in (DOMAIN states) \ {s} |-> states[x]]

Reset(s) ==
  /\ session_states' = reset(session_states, s)
  /\ ret' = NoCall
  /\ UNCHANGED <<now, settings, sessions, component_vars, encoder>>

(* get_stats(session, ...) const *)
GetStats(s) ==
  /\ ret' = Call("get_stats", s, get_stats(session_states, s))
  /\ UNCHANGED <<now, settings, sessions, component_vars, session_states, encoder>>

(* The steady clock advances. *)
TickTo(limit) ==
  /\ now + 1000 <= limit
  /\ now' = now + 1000
  /\ ret' = NoCall
  /\ UNCHANGED <<settings, sessions, component_vars, session_states, encoder>>

Tick == TickTo(MaxTime)

-----------------------------------------------------------------------------
(* Spec: one session, any sequence of calls on the controller *)

SpecSettings ==
  { DefaultSettings,
    [DefaultSettings EXCEPT !.adjustment_interval_ms = 2000, !.min_adjustment_pct = 0] }

SpecSessions ==
  { DefaultSession, [DefaultSession EXCEPT !.auto_bitrate_enabled = FALSE] }

FrameInputs == {0, 130}

LoopFrameInputs == {130}

IntervalInputs == {1000}

LossInputs == {Whole(0), Whole(2), Whole(15)}

StatusInputs == {OKAY, POOR}

BitrateInputs == {7500, 10000}

Init ==
  /\ now = 0
  /\ settings \in SpecSettings
  /\ sessions \in [Sessions -> SpecSessions]
  /\ session_states = << >>
  /\ ret = NoCall
  /\ encoder = [s \in Sessions |-> NoLog]
  /\ ComponentsUnused

Next ==
  \/ Tick
  \/ \E s \in Sessions :
       \/ \E f \in FrameInputs, i \in IntervalInputs : ProcessLossStats(s, f, i)
       \/ \E l \in LossInputs, f \in FrameInputs : ProcessLossStatsDirect(s, l, f)
       \/ \E c \in StatusInputs : ProcessConnectionStatus(s, c)
       \/ ShouldAdjustBitrate(s)
       \/ CalculateNewBitrate(s)
       \/ \E x \in BitrateInputs, ok \in BOOLEAN : ConfirmBitrateChange(s, x, ok)
       \/ Reset(s)
       \/ GetStats(s)

Spec == Init /\ [][Next]_vars

-----------------------------------------------------------------------------
(* SpecLoop: the control plane's message handlers with the loop cadence     *)
(* (spec.md 4.6: after each loss or status message should_adjust_bitrate is *)
(* consulted; if true the new bitrate is computed, the encoder hook         *)
(* reconfigure_bitrate is invoked and confirm_bitrate_change is called).    *)

HookResults == BOOLEAN   \* video.h: reconfigure_bitrate, false = not applied

HookDelays == {0, 1000}  \* time the hook takes, ms

(* The cadence on the map `states` left by the process_* call. *)
LoopCadence(s, states) ==
  IF should_adjust_bitrate(states, s, now)
    THEN \E new_bitrate \in calculate_new_bitrate(states, s, now),
            ok \in HookResults, d \in HookDelays :
           /\ now + d <= MaxLoopTime
           /\ now' = now + d
           /\ session_states' = confirm_bitrate_change(states, s, new_bitrate, ok, now + d)
           /\ encoder' = [encoder EXCEPT ![s] =
                            [last_attempt |-> now,
                             prev_attempt |-> encoder[s].last_attempt,
                             last_reject  |-> IF ok THEN encoder[s].last_reject
                                                    ELSE now + d]]
    ELSE /\ session_states' = states
         /\ UNCHANGED <<now, encoder>>

(* LOSS_STATS (legacy) message *)
OnLossStats(s, lastGoodFrame, time_interval) ==
  /\ CountBelowMax(s)
  /\ LoopCadence(s, process_loss_stats(session_states, s, lastGoodFrame, time_interval, now))
  /\ ret' = NoCall
  /\ UNCHANGED <<settings, sessions, component_vars>>

(* LOSS_STATS_V2 message *)
OnLossStatsV2(s, loss_pct, lastGoodFrame) ==
  /\ CountBelowMax(s)
  /\ LoopCadence(s, process_loss_stats_direct(session_states, s, loss_pct, lastGoodFrame, now))
  /\ ret' = NoCall
  /\ UNCHANGED <<settings, sessions, component_vars>>

(* client connection status message *)
OnConnectionStatus(s, status) ==
  /\ CountBelowMax(s)
  /\ LoopCadence(s, process_connection_status(session_states, s, status, now))
  /\ ret' = NoCall
  /\ UNCHANGED <<settings, sessions, component_vars>>

LoopTick == TickTo(MaxLoopTime)

NextLoop ==
  \/ LoopTick
  \/ \E s \in Sessions :
       \/ \E f \in LoopFrameInputs, i \in IntervalInputs : OnLossStats(s, f, i)
       \/ \E l \in LossInputs, f \in LoopFrameInputs : OnLossStatsV2(s, l, f)
       \/ \E c \in StatusInputs : OnConnectionStatus(s, c)
       \/ ShouldAdjustBitrate(s)
       \/ Reset(s)

SpecLoop == Init /\ [][NextLoop]_vars

-----------------------------------------------------------------------------
(* SpecConfirm: the calls around a confirmation, with the encoder's answer  *)
(* that the caller passes to confirm_bitrate_change kept in the log         *)

ConfirmEncoderAnswer(s, new_bitrate_kbps, success) ==
  /\ CountBelowMax(s)
  /\ session_states' =
       confirm_bitrate_change(session_states, s, new_bitrate_kbps, success, now)
  /\ encoder' = [encoder EXCEPT ![s].last_reject = IF success THEN @ ELSE now]
  /\ ret' = NoCall
  /\ UNCHANGED <<now, settings, sessions, component_vars>>

NextConfirm ==
  \/ Tick
  \/ \E s \in Sessions :
       \/ \E l \in LossInputs, f \in LoopFrameInputs : ProcessLossStatsDirect(s, l, f)
       \/ \E c \in StatusInputs : ProcessConnectionStatus(s, c)
       \/ ShouldAdjustBitrate(s)
       \/ \E x \in BitrateInputs, ok \in BOOLEAN : ConfirmEncoderAnswer(s, x, ok)
       \/ Reset(s)

SpecConfirm == Init /\ [][NextConfirm]_vars

-----------------------------------------------------------------------------
(* SpecCalc: calculate_new_bitrate as a function of the client bounds, the  *)
(* server settings, the requested bitrate and the controller state          *)

(* A controller state as confirm_bitrate_change and process_* leave it. *)
StateWith(s, current, loss, status, last_adjustment) ==
  [new_state(s, 0) EXCEPT !.current_bitrate_kbps = current,
                          !.loss_percentage = loss,
                          !.connection_status = status,
                          !.last_adjustment_time = last_adjustment]

CalcSettings ==
  { [DefaultSettings EXCEPT !.min_kbps = a, !.max_kbps = b,
                            !.max_bitrate_cap = c, !.increase_good_pct = i] :
      a \in {0, 500, 8000}, b \in {0, 300, 9000},
      c \in {0, 100, 4000, 20000}, i \in {5, 50} }

CalcSessions ==
  { [DefaultSession EXCEPT !.auto_bitrate_min_kbps = a,
                           !.auto_bitrate_max_kbps = b, !.bitrate = r] :
      a \in {0, 2000, 20000}, b \in {0, 500, 6000}, r \in {0, 5000, 2000000000} }

CalcCurrents == {1, 5000, 2000000000}

CalcLosses == {Whole(0), Whole(15)}

InitCalc ==
  /\ now = 6000
  /\ settings \in CalcSettings
  /\ sessions \in [Sessions -> CalcSessions]
  /\ \E c \in CalcCurrents, l \in CalcLosses :
       session_states = [s \in Sessions |-> StateWith(s, c, l, OKAY, 0)]
  /\ ret = NoCall
  /\ encoder = [s \in Sessions |-> NoLog]
  /\ ComponentsUnused

NextCalc == \E s \in Sessions : CalculateNewBitrate(s)

SpecCalc == InitCalc /\ [][NextCalc]_vars

-----------------------------------------------------------------------------
(* SpecFactor: get_adjustment_factor, should_adjust_bitrate and             *)
(* calculate_new_bitrate as functions of the settings, the loss, the        *)
(* status, the current bitrate and the time since the last adjustment       *)

(* get_adjustment_factor(state, now, settings) on the session's state *)
GetAdjustmentFactor(s) ==
  /\ HasState(session_states, s)
  /\ ret' = Call("get_adjustment_factor", s,
                 get_adjustment_factor(session_states[s], now, settings))
  /\ UNCHANGED <<now, settings, sessions, component_vars, session_states, encoder>>

FactorSettings ==
  { [DefaultSettings EXCEPT
       !.min_adjustment_pct = m, !.adjustment_interval_ms = a,
       !.decrease_severe_pct = d[1], !.decrease_moderate_pct = d[2],
       !.decrease_mild_pct = d[3], !.increase_good_pct = i,
       !.poor_status_cap_pct = p,
       !.good_stability_ms = g[1], !.increase_min_interval_ms = g[2]] :
      m \in {-1, 0, 5, 100}, a \in {0, 3000},
      d \in {<<25, 12, 5>>, <<100, 12, 2>>, <<150, -5, 0>>},
      i \in {0, 5, 100}, p \in {0, 25},
      g \in {<<5000, 3000>>, <<1000, 4000>>} }

FactorLosses == {Whole(0), Whole(1), Whole(2), Whole(5), Whole(7), Whole(10), Whole(15)}

FactorTimes == {0, 2000, 3000, 5000, 6000}

FactorCurrents == {5000, 8000}

(* The default session, and one that requested 5000 kbps with client bounds *)
(* of 8000 and 9000 kbps.                                                   *)
FactorSessions ==
  { DefaultSession,
    [DefaultSession EXCEPT !.bitrate = 5000, !.auto_bitrate_min_kbps = 8000,
                           !.auto_bitrate_max_kbps = 9000] }

InitFactor ==
  /\ now \in FactorTimes
  /\ settings \in FactorSettings
  /\ sessions \in [Sessions -> FactorSessions]
  /\ \E b \in FactorCurrents, l \in FactorLosses, c \in StatusInputs :
       /\ \A s \in Sessions : b <= sessions[s].bitrate
       /\ session_states = [s \in Sessions |-> StateWith(s, b, l, c, 0)]
  /\ ret = NoCall
  /\ encoder = [s \in Sessions |-> NoLog]
  /\ ComponentsUnused

NextFactor ==
  \E s \in Sessions :
    GetAdjustmentFactor(s) \/ ShouldAdjustBitrate(s) \/ CalculateNewBitrate(s)

SpecFactor == InitFactor /\ [][NextFactor]_vars

-----------------------------------------------------------------------------
(* Properties of the calls (Spec) *)

(* The interval should_adjust_bitrate enforces: the configured one, 3000 ms *)
(* when the setting is not positive.                                        *)
EffectiveInterval ==
  IF settings.adjustment_interval_ms > 0
    THEN settings.adjustment_interval_ms ELSE 3000

Enabled(s) == sessions[s].auto_bitrate_enabled

(* The state confirm_bitrate_change works on: the existing one, or the one  *)
(* it creates.                                                              *)
StateBefore(s) ==
  IF HasState(session_states, s) THEN session_states[s] ELSE new_state(s, now)

(* C1: whenever should_adjust_bitrate(S) returns true at time t,            *)
(* t - S.last_adjustment >= adjustment_interval_ms (3000 ms by default).    *)
C1_ShouldAdjustRespectsInterval ==
  (ret.op = "should_adjust_bitrate" /\ ret.value = TRUE) =>
    /\ HasState(session_states, ret.session)
    /\ now - session_states[ret.session].last_adjustment_time >= EffectiveInterval

(* should_adjust_bitrate returned true exactly one interval after the last  *)
(* adjustment, which was an actual confirmation.                            *)
C1_Witness ==
  /\ ret.op = "should_adjust_bitrate" /\ ret.value = TRUE
  /\ session_states[ret.session].adjustment_count = 1
  /\ now - session_states[ret.session].last_adjustment_time = EffectiveInterval

(* C2: after confirm_bitrate_change(S, x, success) at time t,               *)
(* S.last_adjustment = t, for success true and false and every x.           *)
C2_ConfirmStampsLastAdjustment ==
  [][\A s \in Sessions, x \in BitrateInputs, ok \in BOOLEAN :
       (Enabled(s) /\ ConfirmBitrateChange(s, x, ok)) =>
         /\ HasState(session_states', s)
         /\ session_states'[s].last_adjustment_time = now]_vars

(* A confirmation that changed nothing but last_adjustment (a rejected or   *)
(* no-change one) has run at t = 4000 on a state created earlier.           *)
C2_Witness ==
  /\ now = 4000
  /\ HasState(session_states, "A")
  /\ session_states["A"].last_adjustment_time = 4000
  /\ session_states["A"].session_start_time = 0
  /\ session_states["A"].adjustment_count = 0
  /\ session_states["A"].last_successful_adjustment_time = 0

(* C5: confirm_bitrate_change(S, new, true) with new # current sets current *)
(* to new, adds exactly 1 to adjustment_count and sets                      *)
(* last_successful_adjustment to now; with new = current none of the three  *)
(* fields changes.                                                          *)
C5_SuccessfulConfirm ==
  [][\A s \in Sessions, x \in BitrateInputs :
       (Enabled(s) /\ ConfirmBitrateChange(s, x, TRUE)) =>
         LET before == StateBefore(s)
             after  == session_states'[s]
         IN  IF x # before.current_bitrate_kbps
               THEN /\ after.current_bitrate_kbps = x
                    /\ after.adjustment_count = before.adjustment_count + 1
                    /\ after.last_successful_adjustment_time = now
               ELSE /\ after.current_bitrate_kbps = before.current_bitrate_kbps
                    /\ after.adjustment_count = before.adjustment_count
                    /\ after.last_successful_adjustment_time =
                         before.last_successful_adjustment_time]_vars

(* A successful confirmation of 7500 on a 10000 kbps session at t = 4000,   *)
(* followed at the same instant by nothing else.                            *)
C5_Witness ==
  /\ now = 4000
  /\ HasState(session_states, "A")
  /\ session_states["A"].current_bitrate_kbps = 7500
  /\ session_states["A"].adjustment_count = 1
  /\ session_states["A"].last_successful_adjustment_time = 4000
  /\ session_states["A"].session_start_time = 0

-----------------------------------------------------------------------------
(* Properties of a refused reconfigure (SpecConfirm) *)

(* C4: when the encoder rejects a reconfigure, confirm_bitrate_change(S, x, *)
(* false) leaves current_bitrate_kbps, adjustment_count and                 *)
(* last_successful_adjustment unchanged, and every should_adjust_bitrate(S) *)
(* call made less than adjustment_interval_ms after it returns false.       *)
C4_RejectHoldsStateAndPaces ==
  /\ [][\A s \in Sessions, x \in BitrateInputs :
          (Enabled(s) /\ ConfirmEncoderAnswer(s, x, FALSE)) =>
            LET before == StateBefore(s)
                after  == session_states'[s]
            IN  /\ after.current_bitrate_kbps = before.current_bitrate_kbps
                /\ after.adjustment_count = before.adjustment_count
                /\ after.last_successful_adjustment_time =
                     before.last_successful_adjustment_time]_vars
  /\ [](\A s \in Sessions :
          (encoder[s].last_reject # NoTime
           /\ now - encoder[s].last_reject < EffectiveInterval) =>
            ~should_adjust_bitrate(session_states, s, now))

(* The encoder refused 7500 at t = 4000; at t = 5000, with 15 % loss still  *)
(* reported, the bitrate is 10000 and should_adjust_bitrate has returned    *)
(* false.                                                                   *)
C4_Witness ==
  /\ settings = DefaultSettings
  /\ now = 5000
  /\ encoder["A"].last_reject = 4000
  /\ HasState(session_states, "A")
  /\ session_states["A"].current_bitrate_kbps = 10000
  /\ session_states["A"].adjustment_count = 0
  /\ session_states["A"].loss_percentage = Whole(15)
  /\ session_states["A"].last_adjustment_time = 4000
  /\ ret.op = "should_adjust_bitrate" /\ ret.value = FALSE

-----------------------------------------------------------------------------
(* Properties of the loop cadence (SpecLoop) *)

(* C6: under the loop cadence, two consecutive encoder reconfigure attempts *)
(* for the same session, successful or not, are at least                    *)
(* adjustment_interval_ms apart.                                            *)
C6_AttemptsAreSpaced ==
  \A s \in Sessions :
    encoder[s].prev_attempt # NoTime =>
      encoder[s].last_attempt - encoder[s].prev_attempt >= EffectiveInterval

(* Two attempts exactly 3000 ms apart under the default settings, the first *)
(* one refused by the encoder.                                              *)
C6_Witness ==
  /\ settings = DefaultSettings
  /\ encoder["A"].prev_attempt = 3000
  /\ encoder["A"].last_attempt = 6000
  /\ encoder["A"].last_reject = 3000

-----------------------------------------------------------------------------
(* Properties of calculate_new_bitrate (SpecCalc) *)

ServerMin == IF settings.min_kbps > 0 THEN settings.min_kbps ELSE 1

(* The server maximum: max_kbps lowered to the cap, or the cap alone; 0 if  *)
(* neither is configured.                                                   *)
ServerMax ==
  IF settings.max_kbps > 0
    THEN IF settings.max_bitrate_cap > 0
           THEN Min(settings.max_kbps, settings.max_bitrate_cap)
           ELSE settings.max_kbps
  ELSE IF settings.max_bitrate_cap > 0 THEN settings.max_bitrate_cap
  ELSE 0

RequestedBitrate(s) == IF sessions[s].bitrate < 1 THEN 1000 ELSE sessions[s].bitrate

(* The bounds as the specification words them. *)
StatedMin(s) ==
  Max(IF sessions[s].auto_bitrate_min_kbps > 0
        THEN sessions[s].auto_bitrate_min_kbps ELSE ServerMin,
      ServerMin)

StatedMax(s) ==
  LET m == IF sessions[s].auto_bitrate_max_kbps > 0
             THEN sessions[s].auto_bitrate_max_kbps
           ELSE IF settings.max_kbps > 0 THEN settings.max_kbps
           ELSE RequestedBitrate(s)
  IN  IF settings.max_bitrate_cap > 0 THEN Min(m, settings.max_bitrate_cap) ELSE m

(* The bounds in force. *)
EffectiveMax(s) ==
  IF sessions[s].auto_bitrate_max_kbps > 0
    THEN IF ServerMax > 0
           THEN Min(sessions[s].auto_bitrate_max_kbps, ServerMax)
           ELSE sessions[s].auto_bitrate_max_kbps
  ELSE IF ServerMax > 0 THEN ServerMax
  ELSE RequestedBitrate(s)

EffectiveMin(s) == Min(StatedMin(s), EffectiveMax(s))

(* current_bitrate_kbps * factor before clamping (one value, or the         *)
(* outcomes of an out-of-range cast)                                        *)
RawBitrates(s) ==
  ScaleBitrate(session_states[s].current_bitrate_kbps,
               get_adjustment_factor(session_states[s], now, settings))

Clamped(raw, lo, hi) == IF raw < lo THEN lo ELSE IF raw > hi THEN hi ELSE raw

CalcReturned(s) == ret.op = "calculate_new_bitrate" /\ ret.session = s

(* C3: for every controller state and every combination of client bounds,   *)
(* server settings and requested bitrate, calculate_new_bitrate(S) returns  *)
(* a value inside [effective_min, effective_max] and >= 1 kbps.             *)
C3_ResultWithinBounds ==
  \A s \in Sessions :
    CalcReturned(s) =>
      /\ EffectiveMin(s) <= ret.value /\ ret.value <= EffectiveMax(s)
      /\ ret.value >= 1

(* A 25 % reduction of 5000 kbps came out as the server minimum of 8000,    *)
(* and an increase as the maximum.                                          *)
C3_Witness ==
  /\ CalcReturned("A")
  /\ settings.min_kbps = 8000 /\ settings.max_kbps = 9000
  /\ settings.max_bitrate_cap = 0
  /\ sessions["A"].auto_bitrate_min_kbps = 0 /\ sessions["A"].auto_bitrate_max_kbps = 0
  /\ session_states["A"].current_bitrate_kbps = 5000
  /\ session_states["A"].loss_percentage = Whole(15)
  /\ ret.value = 8000

(* C8 as worded: effective_min = client_min if set, else server_min         *)
(* (default 1), raised to server_min; effective_max = client_max if set,    *)
(* else server_max if set, else the requested bitrate (1000 if below 1), in *)
(* every case lowered to max_bitrate_cap when a cap is configured.          *)
C8_BoundsAsWorded ==
  \A s \in Sessions :
    CalcReturned(s) =>
      \E raw \in RawBitrates(s) :
        ret.value = Clamped(raw, StatedMin(s), StatedMax(s))

(* C8, amended: effective_max = client_max if set, lowered to the server    *)
(* maximum (max_kbps lowered to max_bitrate_cap, or the cap alone) when one *)
(* is configured and lower; without a client max it is the server maximum   *)
(* if configured, else the requested bitrate (1000 if below 1).             *)
(* effective_min = client_min if set, else server_min (default 1), raised   *)
(* to server_min if lower, and then lowered to effective_max if above it.   *)
C8_BoundsInForce ==
  \A s \in Sessions :
    CalcReturned(s) =>
      /\ bitrate_bounds(sessions[s], settings) =
           [min_bitrate |-> EffectiveMin(s), max_bitrate |-> EffectiveMax(s)]
      /\ \E raw \in RawBitrates(s) :
           ret.value = Clamped(raw, EffectiveMin(s), EffectiveMax(s))

(* client_min = 2000, client_max = 6000, server_min = 500, no server max,   *)
(* no cap, current = 5000 and a raw new bitrate of 7500: the result is 6000 *)
C8_Witness ==
  /\ CalcReturned("A")
  /\ sessions["A"].auto_bitrate_min_kbps = 2000
  /\ sessions["A"].auto_bitrate_max_kbps = 6000
  /\ settings.min_kbps = 500 /\ settings.max_kbps = 0
  /\ settings.max_bitrate_cap = 0
  /\ session_states["A"].current_bitrate_kbps = 5000
  /\ RawBitrates("A") = {7500}
  /\ ret.value = 6000

-----------------------------------------------------------------------------
(* Properties of the adjustment policy (SpecFactor) *)

FactorReturned(s) == ret.op = "get_adjustment_factor" /\ ret.session = s

ShouldAdjustReturned(s) == ret.op = "should_adjust_bitrate" /\ ret.session = s

IntervalElapsed(s) ==
  now - session_states[s].last_adjustment_time >= EffectiveInterval

Factor(s) == get_adjustment_factor(session_states[s], now, settings)

(* C7: with loss_percentage = 0 and connection_status = POOR the            *)
(* poor-status clamp still applies: get_adjustment_factor returns at most   *)
(* 1 - poor_status_cap_pct / 100, whatever the time since the last          *)
(* adjustment.                                                              *)
C7_PoorClampAtZeroLoss ==
  \A s \in Sessions :
    (FactorReturned(s)
     /\ session_states[s].loss_percentage = Whole(0)
     /\ session_states[s].connection_status = POOR) =>
      ret.value <= 100 - Max(0, settings.poor_status_cap_pct)

(* C9 as worded: once the interval has elapsed, min_adjustment_pct = 0      *)
(* returns true for every factor different from 1.0, and with               *)
(* min_adjustment_pct = 100 should_adjust_bitrate never returns true.       *)
C9_ThresholdAsWorded ==
  \A s \in Sessions :
    ShouldAdjustReturned(s) =>
      /\ (settings.min_adjustment_pct = 0 /\ IntervalElapsed(s) /\ Factor(s) # 100)
           => ret.value = TRUE
      /\ settings.min_adjustment_pct = 100 => ret.value = FALSE

AllPercentagesBelow100 ==
  /\ settings.decrease_severe_pct < 100
  /\ settings.decrease_moderate_pct < 100
  /\ settings.decrease_mild_pct < 100
  /\ settings.increase_good_pct < 100
  /\ settings.poor_status_cap_pct < 100

(* C9, amended: once the interval has elapsed, min_adjustment_pct = 0       *)
(* returns true exactly for the factors different from 1.0; with            *)
(* min_adjustment_pct = 100 it returns true exactly when the factor differs *)
(* from 1.0 by 1.0 or more, so never while every reduction and increase     *)
(* percentage is below 100.                                                 *)
C9_ThresholdBoundaries ==
  \A s \in Sessions :
    ShouldAdjustReturned(s) =>
      /\ (settings.min_adjustment_pct = 0 /\ IntervalElapsed(s))
           => (ret.value = TRUE <=> Factor(s) # 100)
      /\ (settings.min_adjustment_pct = 100 /\ IntervalElapsed(s))
           => (ret.value = TRUE <=> Abs(Factor(s) - 100) >= 100)
      /\ (settings.min_adjustment_pct = 100 /\ AllPercentagesBelow100)
           => ret.value = FALSE

(* min_adjustment_pct = 100 and a severe reduction of 100 %: with 15 % loss *)
(* should_adjust_bitrate has returned true.                                 *)
C9_Witness ==
  /\ ShouldAdjustReturned("A") /\ ret.value = TRUE
  /\ settings.min_adjustment_pct = 100
  /\ settings.decrease_severe_pct = 100
  /\ session_states["A"].loss_percentage = Whole(15)
  /\ session_states["A"].connection_status = OKAY
  /\ Factor("A") = 0

(* C10: with status OKAY, L > severe gives 1 - severe_reduction, else       *)
(* L > moderate gives 1 - moderate_reduction, else L > mild gives           *)
(* 1 - mild_reduction; a loss equal to a threshold falls into the band      *)
(* below it.  (Thresholds and reductions as the code reads them: negative   *)
(* settings count as 0.)                                                    *)
C10_LossBands ==
  \A s \in Sessions :
    (FactorReturned(s) /\ session_states[s].connection_status = OKAY) =>
      LET L        == session_states[s].loss_percentage
          severe   == LossAbove(L, Max(0, settings.loss_severe_pct))
          moderate == LossAbove(L, Max(0, settings.loss_moderate_pct))
          mild     == LossAbove(L, Max(0, settings.loss_mild_pct))
      IN  /\ severe => ret.value = 100 - Max(0, settings.decrease_severe_pct)
          /\ (~severe /\ moderate)
               => ret.value = 100 - Max(0, settings.decrease_moderate_pct)
          /\ (~severe /\ ~moderate /\ mild)
               => ret.value = 100 - Max(0, settings.decrease_mild_pct)

(* A loss of exactly 10 % (the severe threshold) under OKAY got the         *)
(* moderate reduction: factor 0.88.                                         *)
C10_Witness ==
  /\ FactorReturned("A")
  /\ session_states["A"].connection_status = OKAY
  /\ session_states["A"].loss_percentage = Whole(10)
  /\ settings.loss_severe_pct = 10
  /\ settings.decrease_severe_pct = 25 /\ settings.decrease_moderate_pct = 12
  /\ ret.value = 88

LossInGoodRange(s) ==
  ~LossAbove(session_states[s].loss_percentage, Max(0, settings.loss_mild_pct))

StableAndOkay(s) ==
  /\ now - session_states[s].last_adjustment_time >= settings.good_stability_ms
  /\ session_states[s].connection_status = OKAY

(* The session of the worked examples: default settings, last adjustment at *)
(* t = 0, the given current bitrate, loss and status.                       *)
ExampleState(s, current, loss, status) ==
  /\ settings = DefaultSettings
  /\ sessions[s] = DefaultSession
  /\ session_states[s] = StateWith(s, current, loss, status, 0)

(* C11: when the loss is at or below the mild threshold, the factor exceeds *)
(* 1 (and is then 1 + increase_good_pct / 100) only if                      *)
(* now - last_adjustment >= good_stability_ms and the status is OKAY;       *)
(* otherwise it is exactly 1.0.  With current = 5000, last_adjustment = 0,  *)
(* loss 0 and OKAY: at 2000 ms the factor is 1.0 and there is no            *)
(* adjustment, at 6000 ms the factor is 1.05 and the new bitrate 5250.      *)
C11_GoodRangeGatedByStability ==
  \A s \in Sessions :
    /\ (FactorReturned(s) /\ LossInGoodRange(s)) =>
         /\ ret.value > 100 =>
              /\ StableAndOkay(s)
              /\ ret.value = 100 + Max(0, settings.increase_good_pct)
         /\ ~StableAndOkay(s) => ret.value = 100
    /\ ExampleState(s, 5000, Whole(0), OKAY) =>
         /\ (now = 2000 /\ FactorReturned(s)) => ret.value = 100
         /\ (now = 2000 /\ ShouldAdjustReturned(s)) => ret.value = FALSE
         /\ (now = 2000 /\ CalcReturned(s)) => ret.value = 5000
         /\ (now = 6000 /\ FactorReturned(s)) => ret.value = 105
         /\ (now = 6000 /\ ShouldAdjustReturned(s)) => ret.value = TRUE
         /\ (now = 6000 /\ CalcReturned(s)) => ret.value = 5250

(* The example at 6000 ms: calculate_new_bitrate has returned 5250.         *)
C11_Witness ==
  /\ ExampleState("A", 5000, Whole(0), OKAY)
  /\ now = 6000
  /\ CalcReturned("A") /\ ret.value = 5250

(* The factor of the loss band the session's loss falls into (loss above    *)
(* the mild threshold).                                                     *)
BandFactor(s) ==
  LET L == session_states[s].loss_percentage
  IN  IF LossAbove(L, Max(0, settings.loss_severe_pct))
        THEN 100 - Max(0, settings.decrease_severe_pct)
      ELSE IF LossAbove(L, Max(0, settings.loss_moderate_pct))
        THEN 100 - Max(0, settings.decrease_moderate_pct)
      ELSE 100 - Max(0, settings.decrease_mild_pct)

(* C12: with connection_status POOR and a loss above the mild threshold the *)
(* factor is min(loss-band factor, 1 - poor_status_cap_pct / 100); with     *)
(* the defaults a 2 % loss under POOR gives min(0.95, 0.75) = 0.75 and      *)
(* calculate_new_bitrate turns current = 8000 into 6000.                    *)
C12_PoorCapsLossBands ==
  \A s \in Sessions :
    /\ (FactorReturned(s) /\ ~LossInGoodRange(s)
        /\ session_states[s].connection_status = POOR) =>
         ret.value = Min(BandFactor(s), 100 - Max(0, settings.poor_status_cap_pct))
    /\ ExampleState(s, 8000, Whole(2), POOR) =>
         /\ BandFactor(s) = 95
         /\ FactorReturned(s) => ret.value = 75
         /\ CalcReturned(s) => ret.value = 6000

(* The example: 2 % loss under POOR, 8000 kbps, and calculate_new_bitrate   *)
(* has returned 6000.                                                       *)
C12_Witness ==
  /\ ExampleState("A", 8000, Whole(2), POOR)
  /\ CalcReturned("A") /\ ret.value = 6000

InIncreaseCooldown(s) ==
  now - session_states[s].last_adjustment_time < settings.increase_min_interval_ms

(* The factor before the cooldown is applied exceeds 1. *)
ComputedFactorAboveOne(s) ==
  /\ LossInGoodRange(s) /\ StableAndOkay(s)
  /\ settings.increase_good_pct > 0

(* C13 as worded: whenever the computed factor exceeds 1 and                *)
(* now - last_adjustment < increase_min_interval_ms, get_adjustment_factor  *)
(* returns exactly 1.0, so that no bitrate above the current one is        *)
(* computed for an adjustment within increase_min_interval_ms of the        *)
(* previous adjustment attempt.                                             *)
C13_NoIncreaseInCooldown ==
  \A s \in Sessions :
    InIncreaseCooldown(s) =>
      /\ (FactorReturned(s) /\ ComputedFactorAboveOne(s)) => ret.value = 100
      /\ (CalcReturned(s) /\ should_adjust_bitrate(session_states, s, now)) =>
           ret.value <= session_states[s].current_bitrate_kbps

(* C13, amended: within increase_min_interval_ms of the previous adjustment *)
(* attempt get_adjustment_factor returns exactly 1.0 whenever the computed  *)
(* factor exceeds 1, and never more than 1.0; calculate_new_bitrate then    *)
(* returns a bitrate above the current one only when the current one is     *)
(* below the effective minimum, and that minimum is what it returns.        *)
C13_CooldownHoldsFactor ==
  \A s \in Sessions :
    InIncreaseCooldown(s) =>
      /\ FactorReturned(s) =>
           /\ ret.value <= 100
           /\ ComputedFactorAboveOne(s) => ret.value = 100
      /\ CalcReturned(s) =>
           \/ ret.value <= session_states[s].current_bitrate_kbps
           \/ /\ session_states[s].current_bitrate_kbps < EffectiveMin(s)
              /\ ret.value = EffectiveMin(s)

(* Stable for 1000 ms and OKAY with no loss, 3000 ms after the last         *)
(* adjustment and a cooldown of 4000 ms: the factor returned is 1.0.        *)
C13_Witness ==
  /\ FactorReturned("A") /\ ret.value = 100
  /\ now = 3000
  /\ settings.good_stability_ms = 1000
  /\ settings.increase_min_interval_ms = 4000
  /\ settings.increase_good_pct = 5
  /\ ComputedFactorAboveOne("A")
  /\ InIncreaseCooldown("A")

-----------------------------------------------------------------------------
(* SpecLoss: the loss a session stores, as a function of the configured     *)
(* framerate, the stored baseline frame and the arguments of the two loss   *)
(* reports.  The framerates and intervals are ones whose product is exact   *)
(* in binary32, so that the fraction kept here is the value the code        *)
(* divides by.                                                              *)

LossFramerates == {60, 1500, 60000}

LossIntervals == {0, 500, 1000}

LossFrames == {0, 100, 130, 160}

DirectLossInputs == {Whole(0 - 5), Whole(0), Whole(15)}

InitLoss ==
  /\ now = 0
  /\ settings = DefaultSettings
  /\ sessions \in [Sessions -> {[DefaultSession EXCEPT !.framerate = fr] :
                                 fr \in LossFramerates}]
  /\ session_states = << >>
  /\ ret = NoCall
  /\ encoder = [s \in Sessions |-> NoLog]
  /\ ComponentsUnused

NextLoss ==
  \/ Tick
  \/ \E s \in Sessions :
       \/ \E f \in LossFrames, i \in LossIntervals : ProcessLossStats(s, f, i)
       \/ \E l \in DirectLossInputs, f \in LossFrames : ProcessLossStatsDirect(s, l, f)

SpecLoss == InitLoss /\ [][NextLoss]_vars

-----------------------------------------------------------------------------
(* Properties of the stored loss (SpecLoss) *)

(* The baseline process_loss_stats compares with: the stored                *)
(* last_reported_good_frame, 0 for a session without state.                 *)
Baseline(s) ==
  IF HasState(session_states, s)
    THEN session_states[s].last_reported_good_frame ELSE 0

(* framerate x interval, in frames, as a fraction; a configured framerate   *)
(* above 1000 is in millifps.                                               *)
ExpectedFrames(s, i) ==
  IF sessions[s].framerate > 1000
    THEN Frac(sessions[s].framerate * i, 1000 * 1000)
    ELSE Frac(sessions[s].framerate * i, 1000)

(* max(0, expected - last_good_frame) / (framerate x interval) x 100 with   *)
(* expected = baseline + framerate x interval                               *)
StatedLoss(s, f, i) ==
  LET E == ExpectedFrames(s, i)
  IN  IF Baseline(s) = 0 THEN Whole(0)
      ELSE Frac(Max(0, (Baseline(s) - f) * E.den + E.num) * 100, E.num)

(* The same with expected = baseline + the whole part of                    *)
(* framerate x interval, and 0 when framerate x interval is 0               *)
TruncatedLoss(s, f, i) ==
  LET E == ExpectedFrames(s, i)
      expected == Baseline(s) + (E.num \div E.den)
  IN  IF Baseline(s) = 0 \/ E.num = 0 THEN Whole(0)
      ELSE Frac(Max(0, expected - f) * 100 * E.den, E.num)

C15_LossNonNegative ==
  \A s \in Sessions :
    HasState(session_states, s) => session_states[s].loss_percentage.num >= 0

-----------------------------------------------------------------------------
(* The severe loss scenario (Spec) *)

(* Default settings and session (requested bitrate 10000); the controller   *)
(* state of s dates from t = 0 and has seen no adjustment; a report of 15 % *)
(* loss has arrived at t = 4000 and the status is OKAY.                     *)
SevereLossAt4000(s) ==
  /\ settings = DefaultSettings
  /\ sessions[s] = DefaultSession
  /\ now = 4000
  /\ HasState(session_states, s)
  /\ session_states[s].session_start_time = 0
  /\ session_states[s].last_adjustment_time = 0
  /\ session_states[s].adjustment_count = 0
  /\ session_states[s].current_bitrate_kbps = 10000
  /\ session_states[s].loss_percentage = Whole(15)
  /\ session_states[s].last_loss_stats_time = 4000
  /\ session_states[s].connection_status = OKAY

-----------------------------------------------------------------------------
(* SpecReplay: two runs of the loop side by side.  Session "B" first lives  *)
(* through messages and adjustments of its own and is then reset; from then *)
(* on every message, with the encoder's answer, is delivered at the same    *)
(* instant to the session "A", which starts fresh, and to "B".  The         *)
(* controller keeps its state per session, keyed by the session pointer,    *)
(* and treats all keys alike: the run of "A" is the first run of a fresh    *)
(* session, the run of "B" after its reset is the replay.                   *)

ReplaySessions == {"A", "B"}

(* The cadence as a function: the maps the loop can leave after a message   *)
(* has been processed into `states` at time t and the encoder answers ok.   *)
loop_cadence(states, s, ok, t) ==
  IF should_adjust_bitrate(states, s, t)
    THEN { confirm_bitrate_change(states, s, new_bitrate, ok, t) :
             new_bitrate \in calculate_new_bitrate(states, s, t) }
    ELSE { states }

BothBelowMax(states) ==
  \A s \in ReplaySessions :
    HasState(states, s) => states[s].adjustment_count < MaxAdjustments

(* LOSS_STATS_V2 delivered to both runs, on the map `base` *)
ReplayLossStatsV2(base, loss_pct, lastGoodFrame, ok) ==
  /\ BothBelowMax(base)
  /\ \E m1 \in loop_cadence(
               process_loss_stats_direct(base, "A", loss_pct, lastGoodFrame, now),
               "A", ok, now) :
       \E m2 \in loop_cadence(
                  process_loss_stats_direct(m1, "B", loss_pct, lastGoodFrame, now),
                  "B", ok, now) :
         session_states' = m2
  /\ ret' = NoCall
  /\ UNCHANGED <<now, settings, sessions, component_vars, encoder>>

(* client connection status delivered to both runs, on the map `base` *)
ReplayConnectionStatus(base, status, ok) ==
  /\ BothBelowMax(base)
  /\ \E m1 \in loop_cadence(
               process_connection_status(base, "A", status, now), "A", ok, now) :
       \E m2 \in loop_cadence(
                  process_connection_status(m1, "B", status, now), "B", ok, now) :
         session_states' = m2
  /\ ret' = NoCall
  /\ UNCHANGED <<now, settings, sessions, component_vars, encoder>>

InitReplay ==
  /\ now = 0
  /\ settings \in SpecSettings
  /\ sessions = [s \in ReplaySessions |-> DefaultSession]
  /\ session_states = << >>
  /\ ret = NoCall
  /\ encoder = [s \in ReplaySessions |-> NoLog]
  /\ ComponentsUnused

(* The first message of the two runs is preceded by reset("B"). *)
NextReplay ==
  \/ LoopTick
  \/ /\ ~HasState(session_states, "A")
     /\ \/ \E l \in LossInputs, f \in LoopFrameInputs : OnLossStatsV2("B", l, f)
        \/ \E c \in StatusInputs : OnConnectionStatus("B", c)
        \/ \E l \in LossInputs, f \in LoopFrameInputs, ok \in HookResults :
             ReplayLossStatsV2(reset(session_states, "B"), l, f, ok)
        \/ \E c \in StatusInputs, ok \in HookResults :
             ReplayConnectionStatus(reset(session_states, "B"), c, ok)
  \/ /\ HasState(session_states, "A")
     /\ \/ \E l \in LossInputs, f \in LoopFrameInputs, ok \in HookResults :
             ReplayLossStatsV2(session_states, l, f, ok)
        \/ \E c \in StatusInputs, ok \in HookResults :
             ReplayConnectionStatus(session_states, c, ok)

SpecReplay == InitReplay /\ [][NextReplay]_vars

(* C17: reset(session) followed by a replay of the same loss/status message *)
(* sequence at the same relative times and with the same encoder answers    *)
(* produces the same sequence of current_bitrate_kbps values as the first   *)
(* run from a fresh session: at every step of the two runs the replay has   *)
(* state exactly when the fresh run has, with the same current bitrate.     *)
C17_ReplayAfterResetMatchesFreshRun ==
  HasState(session_states, "A") =>
    /\ HasState(session_states, "B")
    /\ session_states["B"].current_bitrate_kbps =
         session_states["A"].current_bitrate_kbps

(* "B" was adjusted before its reset (the encoder log keeps the attempt at  *)
(* t = 3000); both runs have since been taken from 10000 to 7500.           *)
C17_Witness ==
  /\ encoder["B"].last_attempt = 3000
  /\ HasState(session_states, "A") /\ HasState(session_states, "B")
  /\ session_states["A"].session_start_time = 4000
  /\ session_states["A"].current_bitrate_kbps = 7500
  /\ session_states["B"].current_bitrate_kbps = 7500
  /\ session_states["A"].adjustment_count = 1
  /\ session_states["B"].adjustment_count = 1

-----------------------------------------------------------------------------
(* Sessions without the feature, and reset (Spec) *)

(* C18: for a session whose auto bitrate feature is not enabled,            *)
(* should_adjust_bitrate and get_stats always return false, and no          *)
(* process_loss_stats, process_loss_stats_direct, process_connection_status *)
(* or confirm_bitrate_change call creates or changes controller state for   *)
(* it.                                                                      *)
C18_DisabledSessionUntouched ==
  /\ [](\A s \in Sessions :
          ~Enabled(s) =>
            /\ ~HasState(session_states, s)
            /\ ShouldAdjustReturned(s) => ret.value = FALSE
            /\ (ret.op = "get_stats" /\ ret.session = s) => ret.value.ok = FALSE)
  /\ [][\A s \in Sessions :
          (/\ ~Enabled(s)
           /\ \/ \E f \in FrameInputs, i \in IntervalInputs : ProcessLossStats(s, f, i)
              \/ \E l \in LossInputs, f \in FrameInputs : ProcessLossStatsDirect(s, l, f)
              \/ \E c \in StatusInputs : ProcessConnectionStatus(s, c)
              \/ \E x \in BitrateInputs, ok \in BOOLEAN : ConfirmBitrateChange(s, x, ok))
          => session_states' = session_states]_vars

(* A session without the feature, 4000 ms on: should_adjust_bitrate has     *)
(* returned false and there is no state for it.                             *)
C18_Witness ==
  /\ ~Enabled("A")
  /\ now = 4000
  /\ ShouldAdjustReturned("A") /\ ret.value = FALSE
  /\ ~HasState(session_states, "A")

-----------------------------------------------------------------------------
(* Reset under the loop cadence (SpecLoop) *)

(* The state of s was created by the step, with the requested bitrate as    *)
(* current bitrate, no adjustment counted, and the given loss and status.   *)
CreatedWith(s, loss, status) ==
  /\ session_states'[s].session_start_time = now
  /\ session_states'[s].current_bitrate_kbps = sessions[s].bitrate
  /\ session_states'[s].adjustment_count = 0
  /\ session_states'[s].loss_percentage = loss
  /\ session_states'[s].connection_status = status

-----------------------------------------------------------------------------
(* calculate_new_bitrate is a query (Spec) *)

-----------------------------------------------------------------------------
(* thread_safe.h: safe::queue_t and safe::event_t, and the threads that     *)
(* call into them.  Every member function holds the object's mutex for its  *)
(* whole body, except while it waits on the condition variable: a call is   *)
(* one step up to its return or its first wait, and one step from each      *)
(* wake-up to its return or its next wait.  The elements raised on the      *)
(* queue are numbered 1, 2, ... in the order of the raise calls.            *)

MaxElements == 2       \* queue_t::_max_elements

MaxRaised == 4         \* raise calls on the queue

Threads == {"t1", "t2"}

FalseValue == "false_v"   \* util::false_v<status_t>

TrueValue == "true"

Element == "element"      \* a queue element was returned: the last one of got

NoReturn == "no return"

NoCallYet == [obj |-> "none", op |-> "none", timed |-> FALSE]

(* ret: FalseValue, TrueValue, Element or NoReturn;                         *)
(* pc: "ready" (outside any call), "waiting" (inside _cv.wait or            *)
(* _cv.wait_for) or "notified" (waiting, and a notify_all has been issued); *)
(* call: the call the thread is in or was last in; ret: what it returned;   *)
(* got: the queue elements the thread has received, in order.               *)
ThreadStart == [pc |-> "ready", call |-> NoCallYet, ret |-> NoReturn, got |-> << >>]

QueueStart ==
  [_continue |-> TRUE, _queue |-> << >>, _max_elements |-> MaxElements, raised |-> 0]

EventStart == [_continue |-> TRUE, _status |-> FalseValue]

Blocked(t) == threads[t].pc \in {"waiting", "notified"}

(* _cv.notify_one(): one of the waiting threads is woken *)
notify_one(obj) ==
  LET waiting == {t \in Threads : threads[t].pc = "waiting" /\ threads[t].call.obj = obj}
  IN  IF waiting = {} THEN threads
      ELSE [threads EXCEPT ![CHOOSE t \in waiting : TRUE] = [@ EXCEPT !.pc = "notified"]]

(* _cv.notify_all() on the condition variable of obj *)
notify_all(obj) ==
  [t \in Threads |->
     IF threads[t].pc = "waiting" /\ threads[t].call.obj = obj
       THEN [threads[t] EXCEPT !.pc = "notified"]
       ELSE threads[t]]

(* the thread returns v from its call *)
Return(t, call, v) ==
  [threads EXCEPT ![t] = [@ EXCEPT !.pc = "ready", !.call = call, !.ret = v]]

(* the thread blocks in _cv.wait / _cv.wait_for *)
Wait(t, call) ==
  [threads EXCEPT ![t] = [@ EXCEPT !.pc = "waiting", !.call = call, !.ret = NoReturn]]

(* queue_t::raise that drops the oldest element of a full queue *)
queue_raise_drop_oldest(q, x) ==
  IF ~q._continue THEN q
  ELSE [q EXCEPT !._queue = Append(IF Len(@) = q._max_elements THEN Tail(@) ELSE @, x)]

(* queue_t::raise(args): the queue after *)
queue_raise(q, x) ==
  IF ~q._continue THEN q
  ELSE [q EXCEPT !._queue = Append(IF Len(@) = q._max_elements THEN << >> ELSE @, x)]

QueueRaiseUpTo(limit) ==
  /\ queue.raised < limit
  /\ queue' = [queue_raise(queue, queue.raised + 1) EXCEPT !.raised = @ + 1]
  /\ threads' = IF queue._continue THEN notify_all("queue") ELSE threads
  /\ UNCHANGED <<controller_vars, event, shared, cipher, session_state, task_pool, mail>>

(* a pop that returns the front element and leaves it in the queue *)
QueueTake_keeps_front(t, call) ==
  /\ queue' = queue
  /\ threads' = [threads EXCEPT ![t] =
                   [@ EXCEPT !.pc = "ready", !.call = call, !.ret = Element,
                             !.got = Append(@, Head(queue._queue))]]

QueueRaise == QueueRaiseUpTo(MaxRaised)

(* the front element is moved out and erased; the thread returns it *)
QueueTake(t, call) ==
  /\ queue' = [queue EXCEPT !._queue = Tail(@)]
  /\ threads' = [threads EXCEPT ![t] =
                   [@ EXCEPT !.pc = "ready", !.call = call, !.ret = Element,
                             !.got = Append(@, Head(queue._queue))]]

(* queue_t::pop() and queue_t::pop(delay), up to the return or the wait *)
QueuePop(t, timed) ==
  LET call == [obj |-> "queue", op |-> "pop", timed |-> timed]
  IN  /\ threads[t].pc = "ready"
      /\ IF ~queue._continue
           THEN threads' = Return(t, call, FalseValue) /\ UNCHANGED queue
         ELSE IF queue._queue = << >>
           THEN threads' = Wait(t, call) /\ UNCHANGED queue
         ELSE QueueTake(t, call)
      /\ UNCHANGED <<controller_vars, event, shared, cipher, session_state, task_pool, mail>>

(* _cv.wait returns, or _cv.wait_for returns no_timeout (after a            *)
(* notification or spuriously): the rest of the loop                        *)
QueueWake(t) ==
  LET call == threads[t].call
  IN  /\ Blocked(t) /\ call.obj = "queue"
      /\ IF call.timed
           THEN IF queue._queue # << >> THEN QueueTake(t, call)
                ELSE IF ~queue._continue
                  THEN threads' = Return(t, call, FalseValue) /\ UNCHANGED queue
                ELSE threads' = Wait(t, call) /\ UNCHANGED queue
           ELSE IF ~queue._continue
                  THEN threads' = Return(t, call, FalseValue) /\ UNCHANGED queue
                ELSE IF queue._queue = << >>
                  THEN threads' = Wait(t, call) /\ UNCHANGED queue
                ELSE QueueTake(t, call)
      /\ UNCHANGED <<controller_vars, event, shared, cipher, session_state, task_pool, mail>>

(* _cv.wait_for returns cv_status::timeout *)
QueueTimeout(t) ==
  /\ Blocked(t) /\ threads[t].call.obj = "queue" /\ threads[t].call.timed
  /\ threads' = Return(t, threads[t].call, FalseValue)
  /\ UNCHANGED <<controller_vars, queue, event, shared, cipher, session_state, task_pool, mail>>

(* queue_t::peek() *)
QueuePeek(t) ==
  /\ threads[t].pc = "ready"
  /\ threads' = Return(t, [obj |-> "queue", op |-> "peek", timed |-> FALSE],
                       IF queue._continue /\ queue._queue # << >>
                         THEN TrueValue ELSE FalseValue)
  /\ UNCHANGED <<controller_vars, queue, event, shared, cipher, session_state, task_pool, mail>>

(* queue_t::stop() *)
QueueStop ==
  /\ queue' = [queue EXCEPT !._continue = FALSE]
  /\ threads' = notify_all("queue")
  /\ UNCHANGED <<controller_vars, event, shared, cipher, session_state, task_pool, mail>>

(* The controller takes no part in the specifications of the components. *)
ControllerUnused ==
  /\ now = 0
  /\ settings = DefaultSettings
  /\ sessions = [s \in Sessions |-> DefaultSession]
  /\ session_states = << >>
  /\ ret = NoCall
  /\ encoder = [s \in Sessions |-> NoLog]

(* SpecQueue: a queue, raised on by producers and popped by two threads *)
InitQueue ==
  /\ ControllerUnused
  /\ queue = QueueStart
  /\ threads = [t \in Threads |-> ThreadStart]
  /\ event = Unused /\ shared = Unused /\ cipher = Unused /\ session_state = Unused
  /\ task_pool = Unused /\ mail = Unused

QueueCalls ==
  \/ QueueStop
  \/ \E t \in Threads :
       \/ \E timed \in BOOLEAN : QueuePop(t, timed)
       \/ QueueWake(t)
       \/ QueueTimeout(t)
       \/ QueuePeek(t)

NextQueue ==
  \/ QueueRaise
  \/ QueueCalls

SpecQueue == InitQueue /\ [][NextQueue]_vars

(* C21: when the queue already holds max_elements items, a raise discards   *)
(* only the oldest one: the others stay queued, in order, before the new    *)
(* element.                                                                 *)
C21_OverflowDropsOldest ==
  [][(queue'.raised = queue.raised + 1 /\ queue._continue
        /\ Len(queue._queue) = MaxElements)
     => queue'._queue = Append(Tail(queue._queue), queue.raised + 1)]_vars

(* C22: whatever the interleaving of raise and pop, what a thread has       *)
(* received from the queue is a subsequence of the elements raised, in the  *)
(* order of their raise, and no element is delivered twice, to the same     *)
(* thread or to two threads.                                                *)
C22_DeliveredInRaiseOrder ==
  /\ \A t \in Threads : \A i \in 1..Len(threads[t].got) :
        /\ threads[t].got[i] \in 1..queue.raised
        /\ \A j \in 1..(i - 1) : threads[t].got[j] < threads[t].got[i]
  /\ \A t, u \in Threads : \A i \in 1..Len(threads[t].got) : \A j \in 1..Len(threads[u].got) :
        t # u => threads[t].got[i] # threads[u].got[j]

(* one thread has received two elements with a discarded one in between,    *)
(* while the other thread has received one too                              *)
C22_Witness ==
  \E t, u \in Threads :
    /\ t # u
    /\ Len(threads[t].got) >= 2
    /\ threads[t].got[2] > threads[t].got[1] + 1
    /\ Len(threads[u].got) >= 1

-----------------------------------------------------------------------------
(* safe::event_t<bool>: the value raised is true.                           *)

(* event_t::raise(args) *)
EventRaise ==
  /\ event' = IF event._continue THEN [event EXCEPT !._status = TrueValue] ELSE event
  /\ threads' = IF event._continue THEN notify_all("event") ELSE threads
  /\ UNCHANGED <<controller_vars, queue, shared, cipher, session_state, task_pool, mail>>

(* the value is returned; pop moves it out, view leaves it *)
EventTake(t, call) ==
  /\ event' = IF call.op = "pop" THEN [event EXCEPT !._status = FalseValue] ELSE event
  /\ threads' = Return(t, call, event._status)

(* a pop or view that does not look at _continue on entry *)
EventCall_ignores_stop(t, op, timed) ==
  LET call == [obj |-> "event", op |-> op, timed |-> timed]
  IN  /\ threads[t].pc = "ready"
      /\ IF event._status = FalseValue
           THEN threads' = Wait(t, call) /\ UNCHANGED event
         ELSE EventTake(t, call)
      /\ UNCHANGED <<controller_vars, queue, shared, cipher, session_state, task_pool, mail>>

(* event_t::pop(), pop(delay), view(), view(delay), up to the return or the *)
(* wait                                                                     *)
EventCall(t, op, timed) ==
  LET call == [obj |-> "event", op |-> op, timed |-> timed]
  IN  /\ threads[t].pc = "ready"
      /\ IF ~event._continue
           THEN threads' = Return(t, call, FalseValue) /\ UNCHANGED event
         ELSE IF event._status = FalseValue
           THEN threads' = Wait(t, call) /\ UNCHANGED event
         ELSE EventTake(t, call)
      /\ UNCHANGED <<controller_vars, queue, shared, cipher, session_state, task_pool, mail>>

EventPop(t, timed) == EventCall(t, "pop", timed)

EventView(t, timed) == EventCall(t, "view", timed)

(* _cv.wait returns, or _cv.wait_for returns no_timeout (after a            *)
(* notification or spuriously): the rest of the loop                        *)
EventWake(t) ==
  LET call == threads[t].call
  IN  /\ Blocked(t) /\ call.obj = "event"
      /\ IF call.timed
           THEN IF event._status # FalseValue THEN EventTake(t, call)
                ELSE IF ~event._continue
                  THEN threads' = Return(t, call, FalseValue) /\ UNCHANGED event
                ELSE threads' = Wait(t, call) /\ UNCHANGED event
           ELSE IF ~event._continue
                  THEN threads' = Return(t, call, FalseValue) /\ UNCHANGED event
                ELSE IF event._status = FalseValue
                  THEN threads' = Wait(t, call) /\ UNCHANGED event
                ELSE EventTake(t, call)
      /\ UNCHANGED <<controller_vars, queue, shared, cipher, session_state, task_pool, mail>>

(* _cv.wait_for returns cv_status::timeout *)
EventTimeout(t) ==
  /\ Blocked(t) /\ threads[t].call.obj = "event" /\ threads[t].call.timed
  /\ threads' = Return(t, threads[t].call, FalseValue)
  /\ UNCHANGED <<controller_vars, queue, event, shared, cipher, session_state, task_pool, mail>>

(* event_t::peek() *)
EventPeek(t) ==
  /\ threads[t].pc = "ready"
  /\ threads' = Return(t, [obj |-> "event", op |-> "peek", timed |-> FALSE],
                       IF event._continue /\ event._status # FalseValue
                         THEN TrueValue ELSE FalseValue)
  /\ UNCHANGED <<controller_vars, queue, event, shared, cipher, session_state, task_pool, mail>>

(* event_t::stop() *)
EventStop ==
  /\ event' = [event EXCEPT !._continue = FALSE]
  /\ threads' = notify_all("event")
  /\ UNCHANGED <<controller_vars, queue, shared, cipher, session_state, task_pool, mail>>

(* event_t::reset() *)
EventReset ==
  /\ event' = [event EXCEPT !._continue = TRUE, !._status = FalseValue]
  /\ UNCHANGED <<controller_vars, queue, threads, shared, cipher, session_state, task_pool, mail>>

(* SpecSync: an event and a queue, and two threads that call into either *)
InitSync ==
  /\ ControllerUnused
  /\ queue = QueueStart
  /\ event = EventStart
  /\ threads = [t \in Threads |-> ThreadStart]
  /\ shared = Unused /\ cipher = Unused /\ session_state = Unused
  /\ task_pool = Unused /\ mail = Unused

MaxSyncRaised == 1     \* raise calls on the queue, next to those on the event

NextSync ==
  \/ QueueRaiseUpTo(MaxSyncRaised)
  \/ QueueCalls
  \/ EventRaise
  \/ EventStop
  \/ EventReset
  \/ \E t \in Threads :
       \/ \E timed \in BOOLEAN : EventPop(t, timed) \/ EventView(t, timed)
       \/ EventWake(t)
       \/ EventTimeout(t)
       \/ EventPeek(t)

SpecSync == InitSync /\ [][NextSync]_vars

(* A thread that has been notified runs again, and a wait_for ends at the   *)
(* latest when its delay has passed.                                        *)
ThreadRuns(t) ==
  /\ threads[t].pc = "notified" \/ (Blocked(t) /\ threads[t].call.timed)
  /\ QueueWake(t) \/ QueueTimeout(t) \/ EventWake(t) \/ EventTimeout(t)

SpecSyncFair == SpecSync /\ \A t \in Threads : WF_vars(ThreadRuns(t))

(* a call into obj begins in this step, made by t *)
Calls(t, obj) ==
  /\ threads[t].pc = "ready"
  /\ threads'[t] # threads[t]
  /\ threads'[t].call.obj = obj

(* C23: once stop() has been called on a queue or an event, a raise changes *)
(* nothing, and every pop, view and peek called from then on returns the    *)
(* false value at once and leaves the pending value or the queued elements  *)
(* where they are; on the event this ends with reset(), after which a raise *)
(* stores its value again.                                                  *)
C23_StoppedIgnoresCalls ==
  /\ [][(queue'.raised # queue.raised /\ ~queue._continue)
          => (queue'._queue = queue._queue /\ threads' = threads)]_vars
  /\ [][(EventRaise /\ ~event._continue) => UNCHANGED <<event, threads>>]_vars
  /\ [][\A t \in Threads : (Calls(t, "queue") /\ ~queue._continue)
          => (threads'[t].pc = "ready" /\ threads'[t].ret = FalseValue
              /\ queue' = queue)]_vars
  /\ [][\A t \in Threads : (Calls(t, "event") /\ ~event._continue)
          => (threads'[t].pc = "ready" /\ threads'[t].ret = FalseValue
              /\ event' = event)]_vars
  /\ [][(~event._continue /\ event'._continue)
          => (EventReset /\ event'._status = FalseValue)]_vars
  /\ [][~queue._continue => ~queue'._continue]_vars

(* on a stopped queue that still holds elements a pop has returned false,   *)
(* and on a stopped event that still holds a value a view has               *)
C23_Witness ==
  \E t, u \in Threads :
    /\ ~queue._continue /\ queue._queue # << >>
    /\ threads[t].pc = "ready" /\ threads[t].ret = FalseValue
    /\ threads[t].call = [obj |-> "queue", op |-> "pop", timed |-> TRUE]
    /\ ~event._continue /\ event._status = TrueValue
    /\ threads[u].pc = "ready" /\ threads[u].ret = FalseValue
    /\ threads[u].call = [obj |-> "event", op |-> "view", timed |-> FALSE]

(* the object thread t is blocked on has been stopped *)
BlockedOnStopped(t) ==
  /\ Blocked(t)
  /\ \/ threads[t].call.obj = "queue" /\ ~queue._continue
     \/ threads[t].call.obj = "event" /\ ~event._continue

-----------------------------------------------------------------------------
(* thread_safe.h: safe::shared_t, an instance with static storage, so that  *)
(* _count, which the constructor leaves alone, starts at 0.  ref() and      *)
(* release() hold _lock for their whole body.                               *)

MaxHeld == 3           \* references one thread holds at a time

MaxConstructs == 4     \* runs of the construct callback

(* object: "none" before the first placement new, "raw" after a placement   *)
(* new whose construct callback failed, "constructed", or "destroyed";      *)
(* constructs, destructs: the runs of the two callbacks; held: the ptr_t    *)
(* with a non-null owner that each thread has.                              *)
SharedStart ==
  [_count |-> 0, object |-> "none", constructs |-> 0, destructs |-> 0,
   held |-> [t \in Threads |-> 0]]

Outstanding(sh) == sh.held["t1"] + sh.held["t2"]

(* a ref() that constructs the object only the first time *)
shared_ref_constructs_once(sh, t, failed) ==
  IF sh._count = 0 /\ sh.object = "none"
    THEN IF failed THEN [sh EXCEPT !.object = "raw", !.constructs = @ + 1]
         ELSE [sh EXCEPT !.object = "constructed", !.constructs = @ + 1,
                         !._count = 1, !.held[t] = @ + 1]
    ELSE [sh EXCEPT !._count = @ + 1, !.held[t] = @ + 1]

(* a ref() that goes on to count the reference when _construct has failed *)
shared_ref_counts_failed(sh, t, failed) ==
  IF sh._count = 0
    THEN [sh EXCEPT !.object = IF failed THEN "raw" ELSE "constructed",
                    !.constructs = @ + 1, !._count = 1, !.held[t] = @ + 1]
    ELSE [sh EXCEPT !._count = @ + 1, !.held[t] = @ + 1]

(* shared_t::ref(), called by t; failed: _construct returns non-zero *)
shared_ref(sh, t, failed) ==
  IF sh._count = 0
    THEN IF failed THEN [sh EXCEPT !.object = "raw", !.constructs = @ + 1]
         ELSE [sh EXCEPT !.object = "constructed", !.constructs = @ + 1,
                         !._count = 1, !.held[t] = @ + 1]
    ELSE [sh EXCEPT !._count = @ + 1, !.held[t] = @ + 1]

(* shared_t::ptr_t::release(), on a ptr_t of t *)
shared_release(sh, t) ==
  IF sh._count - 1 = 0
    THEN [sh EXCEPT !._count = 0, !.object = "destroyed", !.destructs = @ + 1,
                    !.held[t] = @ - 1]
    ELSE [sh EXCEPT !._count = @ - 1, !.held[t] = @ - 1]

SharedRef(t, failed) ==
  /\ shared.held[t] < MaxHeld
  /\ shared._count = 0 => shared.constructs < MaxConstructs
  /\ shared' = shared_ref(shared, t, failed)
  /\ UNCHANGED <<controller_vars, queue, event, threads, cipher, session_state, task_pool, mail>>

(* ptr_t(const ptr_t &): a copy of a ptr_t that some thread holds, made by  *)
(* t; the copy takes a reference through ref()                              *)
SharedCopy(t) ==
  /\ Outstanding(shared) > 0
  /\ shared.held[t] < MaxHeld
  /\ shared' = shared_ref(shared, t, FALSE)
  /\ UNCHANGED <<controller_vars, queue, event, threads, cipher, session_state, task_pool, mail>>

(* ~ptr_t() or release() on a ptr_t with an owner *)
SharedRelease(t) ==
  /\ shared.held[t] > 0
  /\ shared' = shared_release(shared, t)
  /\ UNCHANGED <<controller_vars, queue, event, threads, cipher, session_state, task_pool, mail>>

InitShared ==
  /\ ControllerUnused
  /\ shared = SharedStart
  /\ queue = Unused /\ event = Unused /\ threads = Unused
  /\ cipher = Unused /\ session_state = Unused
  /\ task_pool = Unused /\ mail = Unused

NextShared ==
  \E t \in Threads :
    \/ \E failed \in BOOLEAN : SharedRef(t, failed)
    \/ SharedCopy(t)
    \/ SharedRelease(t)

SpecShared == InitShared /\ [][NextShared]_vars

(* C25: under every interleaving of ref(), copies and releases, _count is   *)
(* the number of references held and the object is constructed whenever one *)
(* is held; the construct callback runs in exactly the steps that take a    *)
(* reference while the count is 0, and the destruct callback in exactly the *)
(* steps that release the last reference held.                              *)
C25_ObjectLivesWhileReferenced ==
  /\ [](shared._count = Outstanding(shared))
  /\ [](Outstanding(shared) > 0 => shared.object = "constructed")
  /\ [][(shared'.constructs = shared.constructs + 1)
          <=> (Outstanding(shared) = 0
               /\ \E t \in Threads, failed \in BOOLEAN : SharedRef(t, failed))]_vars
  /\ [][shared'.constructs \in {shared.constructs, shared.constructs + 1}]_vars
  /\ [][(shared'.destructs = shared.destructs + 1)
          <=> (Outstanding(shared) = 1 /\ Outstanding(shared') = 0)]_vars
  /\ [][shared'.destructs \in {shared.destructs, shared.destructs + 1}]_vars

(* the object has been constructed, destroyed with the last reference, and  *)
(* constructed again; two threads hold references to it                     *)
C25_Witness ==
  /\ shared.constructs = 2 /\ shared.destructs = 1
  /\ shared.held["t1"] > 0 /\ shared.held["t2"] > 0

-----------------------------------------------------------------------------
(* crypto.h: the size of the output buffer of cbc_t::encrypt.  crypto.cpp   *)
(* is not among the sources: the length that encrypt writes is the one of   *)
(* PKCS#7 (RFC 5652, 6.3), which pads with 1 to 16 bytes.                   *)

MaxPlaintext == 64     \* plaintext lengths

(* crypto::cipher::round_to_pkcs7_padded(size); size + 15 wraps only for    *)
(* sizes within 15 of the largest std::size_t, far above MaxPlaintext       *)
round_to_pkcs7_padded(size) == ((size + 15) \div 16) * 16

(* the bytes cbc_t::encrypt writes for a plaintext of n bytes, with padding *)
pkcs7_padded_length(n) == (n \div 16 + 1) * 16

(* a plaintext of n bytes and an output buffer sized as the note on         *)
(* cbc_t::encrypt asks                                                      *)
Plaintext(n) ==
  [plaintext |-> n, buffer |-> round_to_pkcs7_padded(n), encrypted |-> FALSE, written |-> 0]

(* cbc_t::encrypt(plaintext, cipher, iv) *)
CbcEncrypt ==
  /\ ~cipher.encrypted
  /\ cipher' = [cipher EXCEPT !.encrypted = TRUE,
                              !.written = pkcs7_padded_length(cipher.plaintext)]
  /\ UNCHANGED <<controller_vars, queue, event, threads, shared, session_state, task_pool, mail>>

(* the next message: a new plaintext and a buffer sized for it *)
NextPlaintext(n) ==
  /\ cipher.encrypted
  /\ cipher' = Plaintext(n)
  /\ UNCHANGED <<controller_vars, queue, event, threads, shared, session_state, task_pool, mail>>

InitCipher ==
  /\ ControllerUnused
  /\ \E n \in 0..MaxPlaintext : cipher = Plaintext(n)
  /\ queue = Unused /\ event = Unused /\ threads = Unused
  /\ shared = Unused /\ session_state = Unused
  /\ task_pool = Unused /\ mail = Unused

NextCipher ==
  \/ CbcEncrypt
  \/ \E n \in 0..MaxPlaintext : NextPlaintext(n)

SpecCipher == InitCipher /\ [][NextCipher]_vars

(* C26: for every plaintext length, the ciphertext that encrypt writes fits *)
(* into an output buffer of round_to_pkcs7_padded(length) bytes.            *)
C26_BufferHoldsCiphertext ==
  cipher.encrypted => cipher.written <= cipher.buffer

-----------------------------------------------------------------------------
(* stream.h: session_t::state, an atomic of session::state_e, whose         *)
(* enumerators have the values 0, 1, 2, 3 in the order of their             *)
(* declaration.  stream.cpp is not among the sources: the transitions are   *)
(* those of spec.md 4.1, and a component observes the state by comparing    *)
(* the value loaded with STOPPING.                                          *)

STOPPED == 0

STOPPING == 1

STARTING == 2

RUNNING == 3

MaxStarts == 3         \* times the session is started

Components == {"video", "audio", "control"}

(* the loaded value is "STOPPING or later" *)
stopping_or_later(state) == state >= STOPPING

SessionStart ==
  [state |-> STOPPED, starts |-> 0, component |-> [c \in Components |-> "idle"]]

(* STOPPED -> STARTING on start(session, local_address) *)
SessionStarting ==
  /\ session_state.state = STOPPED
  /\ session_state.starts < MaxStarts
  /\ session_state' = [session_state EXCEPT !.state = STARTING, !.starts = @ + 1]
  /\ UNCHANGED <<controller_vars, queue, event, threads, shared, cipher, task_pool, mail>>

(* STARTING -> RUNNING once the first control-plane connect is matched *)
SessionRunning ==
  /\ session_state.state = STARTING
  /\ session_state' = [session_state EXCEPT !.state = RUNNING]
  /\ UNCHANGED <<controller_vars, queue, event, threads, shared, cipher, task_pool, mail>>

(* * -> STOPPING on a shutdown signal, a ping timeout, a send error or a    *)
(* terminate message                                                        *)
SessionStopping ==
  /\ session_state.state \in {STARTING, RUNNING}
  /\ session_state' = [session_state EXCEPT !.state = STOPPING]
  /\ UNCHANGED <<controller_vars, queue, event, threads, shared, cipher, task_pool, mail>>

(* STOPPING -> STOPPED after the threads have completed *)
SessionStopped ==
  /\ session_state.state = STOPPING
  /\ \A c \in Components : session_state.component[c] # "working"
  /\ session_state' = [session_state EXCEPT !.state = STOPPED]
  /\ UNCHANGED <<controller_vars, queue, event, threads, shared, cipher, task_pool, mail>>

(* a component loads the state and abandons its work on "STOPPING or        *)
(* later", and works (on) otherwise                                         *)
Observe(c) ==
  /\ session_state' =
       [session_state EXCEPT !.component[c] =
          IF stopping_or_later(session_state.state) THEN "abandoned" ELSE "working"]
  /\ UNCHANGED <<controller_vars, queue, event, threads, shared, cipher, task_pool, mail>>

InitSession ==
  /\ ControllerUnused
  /\ session_state = SessionStart
  /\ queue = Unused /\ event = Unused /\ threads = Unused
  /\ shared = Unused /\ cipher = Unused
  /\ task_pool = Unused /\ mail = Unused

NextSession ==
  \/ SessionStarting
  \/ SessionRunning
  \/ SessionStopping
  \/ SessionStopped
  \/ \E c \in Components : Observe(c)

SpecSession == InitSession /\ [][NextSession]_vars

(* the state moves along STOPPED -> STARTING -> RUNNING -> STOPPING ->      *)
(* STOPPED only (STARTING -> STOPPING included, as "* -> STOPPING")         *)
LifecycleEdges ==
  [][\/ session_state'.state = session_state.state
     \/ <<session_state.state, session_state'.state>> \in
          {<<STOPPED, STARTING>>, <<STARTING, RUNNING>>, <<STARTING, STOPPING>>,
           <<RUNNING, STOPPING>>, <<STOPPING, STOPPED>>}]_vars

(* C27: the state moves along the lifecycle only, and a component that      *)
(* compares the state value for "STOPPING or later" abandons its work       *)
(* exactly when the state is STOPPING or STOPPED.                           *)
C27_StopsExactlyWhenStopping ==
  /\ LifecycleEdges
  /\ [][\A c \in Components :
          Observe(c) =>
            (session_state'.component[c] = "abandoned"
               <=> session_state.state \in {STOPPING, STOPPED})]_vars

-----------------------------------------------------------------------------
(* SpecRecover: the loop cadence on LOSS_STATS_V2 reports, with default     *)
(* settings and an encoder that accepts every reconfigure, without an end   *)
(* of time.  The controller reads the clock only in differences to the      *)
(* instants it has stored, and compares these with thresholds of at most    *)
(* good_stability_ms = 5000: once now has reached RecoverHorizon the clock  *)
(* advances by moving the stored instants back instead, no further than 0.  *)
(* adjustment_count is kept up to MaxAdjustments.                           *)

RecoverHorizon == 6000

RecoverBitrates == {25, 40}   \* config.monitor.bitrate, kbps

RecoverLosses == {Whole(0), Whole(1), Whole(15)}

Earlier(t) == Max(0, t - 1000)

RecoverTick ==
  /\ IF now < RecoverHorizon
       THEN now' = now + 1000 /\ UNCHANGED session_states
       ELSE /\ now' = now
            /\ session_states' =
                 [s \in DOMAIN session_states |->
                    [session_states[s] EXCEPT
                       !.last_loss_stats_time = Earlier(@),
                       !.last_adjustment_time = Earlier(@),
                       !.last_successful_adjustment_time = Earlier(@),
                       !.session_start_time = Earlier(@)]]
  /\ ret' = NoCall
  /\ UNCHANGED <<settings, sessions, component_vars, encoder>>

(* LOSS_STATS_V2 message, then the cadence: should_adjust_bitrate, and if   *)
(* true calculate_new_bitrate, the hook (which applies the bitrate) and     *)
(* confirm_bitrate_change                                                   *)
RecoverLossStatsV2(s, loss_pct) ==
  LET reported == process_loss_stats_direct(session_states, s, loss_pct, 130, now)
  IN  /\ IF should_adjust_bitrate(reported, s, now)
           THEN \E new_bitrate \in calculate_new_bitrate(reported, s, now) :
                  session_states' =
                    [confirm_bitrate_change(reported, s, new_bitrate, TRUE, now)
                       EXCEPT ![s].adjustment_count = Min(@, MaxAdjustments)]
           ELSE session_states' = reported
      /\ ret' = NoCall
      /\ UNCHANGED <<now, settings, sessions, component_vars, encoder>>

InitRecover ==
  /\ now = 0
  /\ settings = DefaultSettings
  /\ sessions \in [Sessions -> {[DefaultSession EXCEPT !.bitrate = b] : b \in RecoverBitrates}]
  /\ session_states = << >>
  /\ ret = NoCall
  /\ encoder = [s \in Sessions |-> NoLog]
  /\ ComponentsUnused

NextRecover ==
  \/ RecoverTick
  \/ \E s \in Sessions, l \in RecoverLosses : RecoverLossStatsV2(s, l)

SpecRecover == InitRecover /\ [][NextRecover]_vars

(* Time passes, and the client keeps reporting: a report arrives again and  *)
(* again.  Nothing is assumed about the loss reported, so that the fair     *)
(* behaviours include those whose reports are all good from some point on.  *)
RecoverGoodReport(s) ==
  \E l \in RecoverLosses :
    ~LossAbove(l, settings.loss_mild_pct) /\ RecoverLossStatsV2(s, l)

SpecRecoverFair ==
  /\ SpecRecover
  /\ WF_vars(RecoverTick)
  /\ \A s \in Sessions : WF_vars(RecoverGoodReport(s))

(* the last report of the session had a loss at or below the mild threshold *)
(* and the status is OKAY                                                   *)
GoodReports(s) ==
  /\ HasState(session_states, s)
  /\ ~LossAbove(session_states[s].loss_percentage, settings.loss_mild_pct)
  /\ session_states[s].connection_status = OKAY

(* C28: if from some point on every report is good, the current bitrate     *)
(* reaches the effective maximum, whatever value it had come down to.       *)
C28_RecoversToMax ==
  \A s \in Sessions :
    <>[]GoodReports(s)
      => <>[](HasState(session_states, s)
              /\ session_states[s].current_bitrate_kbps = EffectiveMax(s))

C30_LossWithinPercentRange ==
  [][\A s \in Sessions, f \in LossFrames, i \in LossIntervals :
       ProcessLossStats(s, f, i) =>
         /\ session_states'[s].loss_percentage =
              compute_loss_percentage(get_or_create_state(session_states, s, now), s, f, i)
         /\ session_states'[s].loss_percentage.num >= 0
         /\ session_states'[s].loss_percentage.num
              <= 100 * session_states'[s].loss_percentage.den]_vars

-----------------------------------------------------------------------------
(* SpecLoopBounds: the loop cadence on sessions and settings with and       *)
(* without bounds, the settings fixed from the start                        *)

BoundsSettings ==
  { DefaultSettings,
    [DefaultSettings EXCEPT !.max_kbps = 9000],
    [DefaultSettings EXCEPT !.min_kbps = 8000, !.max_bitrate_cap = 4000] }

BoundsSessions ==
  { DefaultSession,
    [DefaultSession EXCEPT !.bitrate = 0],
    [DefaultSession EXCEPT !.bitrate = 5000],
    [DefaultSession EXCEPT !.bitrate = 5000, !.auto_bitrate_min_kbps = 6000,
                           !.auto_bitrate_max_kbps = 7000] }

InitLoopBounds ==
  /\ now = 0
  /\ settings \in BoundsSettings
  /\ sessions \in [Sessions -> BoundsSessions]
  /\ session_states = << >>
  /\ ret = NoCall
  /\ encoder = [s \in Sessions |-> NoLog]
  /\ ComponentsUnused

SpecLoopBounds == InitLoopBounds /\ [][NextLoop]_vars

(* neither a client maximum nor a server maximum or cap is configured *)
NoMaxConfigured(s) == sessions[s].auto_bitrate_max_kbps <= 0 /\ ServerMax = 0

Adjusted(s) ==
  HasState(session_states, s) /\ session_states[s].adjustment_count > 0

(* C31 as stated: after every successful adjustment the current bitrate is  *)
(* within [effective_min, effective_max], and without any maximum           *)
(* configured it never rises above the requested bitrate.                   *)
C31_WithinBoundsNeverAboveRequested ==
  \A s \in Sessions :
    /\ Adjusted(s) =>
         /\ EffectiveMin(s) <= session_states[s].current_bitrate_kbps
         /\ session_states[s].current_bitrate_kbps <= EffectiveMax(s)
    /\ (NoMaxConfigured(s) /\ HasState(session_states, s)) =>
         session_states[s].current_bitrate_kbps <= sessions[s].bitrate

(* C31: after every successful adjustment the current bitrate is within     *)
(* [effective_min, effective_max]; without any maximum configured it never  *)
(* rises above the requested bitrate if that is at least 1 kbps, and never  *)
(* above 1000 if the requested bitrate is below 1.                          *)
C31_WithinBoundsAfterAdjustment ==
  \A s \in Sessions :
    /\ Adjusted(s) =>
         /\ EffectiveMin(s) <= session_states[s].current_bitrate_kbps
         /\ session_states[s].current_bitrate_kbps <= EffectiveMax(s)
    /\ (NoMaxConfigured(s) /\ HasState(session_states, s)) =>
         session_states[s].current_bitrate_kbps
           <= (IF sessions[s].bitrate >= 1 THEN sessions[s].bitrate ELSE 1000)

(* a session that requested 5000 kbps under a server maximum of 9000 has    *)
(* been raised to 5250 after five good seconds                              *)
C31_Witness ==
  /\ settings.max_kbps = 9000
  /\ sessions["A"].bitrate = 5000 /\ sessions["A"].auto_bitrate_max_kbps = 0
  /\ Adjusted("A")
  /\ session_states["A"].current_bitrate_kbps = 5250

-----------------------------------------------------------------------------
(* The factor and the bitrate under POOR (SpecFactor) *)

Poor(s) == session_states[s].connection_status = POOR

(* C32 as stated: while the status is POOR, get_adjustment_factor returns   *)
(* at most 1.0, so that no adjustment computes a bitrate above the current  *)
(* one.                                                                     *)
C32_PoorNeverRaises ==
  \A s \in Sessions :
    Poor(s) =>
      /\ Factor(s) <= 100
      /\ FactorReturned(s) => ret.value <= 100
      /\ (CalcReturned(s) /\ should_adjust_bitrate(session_states, s, now))
           => ret.value <= session_states[s].current_bitrate_kbps

(* C32: while the status is POOR, get_adjustment_factor returns at most     *)
(* 1.0, for every loss, elapsed time and settings; an adjustment computes a *)
(* bitrate above the current one only when the current one is below the     *)
(* effective minimum, and that bitrate is then the effective minimum.       *)
C32_PoorFactorAtMostOne ==
  \A s \in Sessions :
    Poor(s) =>
      /\ Factor(s) <= 100
      /\ FactorReturned(s) => ret.value <= 100
      /\ (CalcReturned(s) /\ should_adjust_bitrate(session_states, s, now))
           => \/ ret.value <= session_states[s].current_bitrate_kbps
              \/ /\ session_states[s].current_bitrate_kbps < EffectiveMin(s)
                 /\ ret.value = EffectiveMin(s)

(* POOR with no loss, long after the last adjustment and with an increase   *)
(* of 5 % configured: the factor returned is 1.0                            *)
C32_Witness ==
  /\ Poor("A") /\ FactorReturned("A")
  /\ session_states["A"].loss_percentage = Whole(0)
  /\ now >= settings.good_stability_ms /\ now >= settings.increase_min_interval_ms
  /\ settings.increase_good_pct = 5 /\ settings.poor_status_cap_pct = 0
  /\ ret.value = 100

-----------------------------------------------------------------------------
(* What the feedback calls leave alone (Spec) *)

(* the step leaves the bitrate, the count and the two adjustment instants   *)
(* of the session's state as they are                                       *)
AdjustmentFieldsKept(s) ==
  /\ HasState(session_states', s)
  /\ session_states'[s].current_bitrate_kbps = session_states[s].current_bitrate_kbps
  /\ session_states'[s].adjustment_count = session_states[s].adjustment_count
  /\ session_states'[s].last_adjustment_time = session_states[s].last_adjustment_time
  /\ session_states'[s].last_successful_adjustment_time
       = session_states[s].last_successful_adjustment_time

FeedbackCall(s) ==
  \/ \E f \in FrameInputs, i \in IntervalInputs : ProcessLossStats(s, f, i)
  \/ \E l \in LossInputs, f \in FrameInputs : ProcessLossStatsDirect(s, l, f)
  \/ \E c \in StatusInputs : ProcessConnectionStatus(s, c)

-----------------------------------------------------------------------------
(* task_pool_util::TaskPool (src/src/task_pool.h).                          *)
(*                                                                          *)
(* A task is identified by its task_id_t, the address of the runnable; the  *)
(* tasks are numbered 1, 2, ... in the order they are created.  A moved-    *)
(* from std::unique_ptr holds no task: NullTask.  _timer_tasks is a         *)
(* sequence of [time, task] pairs, its front first.  Every call holds       *)
(* _task_mutex from its first access to its return, so a call is one step.  *)

MaxTasks == 3          \* tasks created by push and pushDelayed

MaxPoolTime == 3000    \* the clock of the task pool stops here

NullTask == 0

Durations == {0, 1000, 2000}

PoolNoCall ==
  [op |-> "none", arg |-> NullTask, has_value |-> FALSE, task |-> NullTask,
   time |-> NoTime]

(* the last call on the pool: its argument, whether it returned a value     *)
(* (an engaged optional, or true), and the task and time point returned     *)
PoolCall(op, arg, has_value, task, time) ==
  [op |-> op, arg |-> arg, has_value |-> has_value, task |-> task, time |-> time]

(* aborted: the process was ended by a library assertion *)
PoolStart ==
  [_tasks |-> << >>, _timer_tasks |-> << >>, created |-> 0, ret |-> PoolNoCall,
   aborted |-> FALSE]

Timer(time, task) == [time |-> time, task |-> task]

(* std::find_if over _timer_tasks by task id: the position, 0 for end() *)
Position(list, task_id) ==
  IF \E i \in 1..Len(list) : list[i].task = task_id
    THEN CHOOSE i \in 1..Len(list) :
           /\ list[i].task = task_id
           /\ \A j \in 1..(i - 1) : list[j].task # task_id
    ELSE 0

Erase(list, pos) == SubSeq(list, 1, pos - 1) \o SubSeq(list, pos + 1, Len(list))

(* TaskPool::push: the pool after *)
pool_push(p, task) == [p EXCEPT !._tasks = Append(@, task)]

(* TaskPool::pushDelayed(pair): the pair goes before the first entry with a *)
(* smaller time point, at the end when there is none                        *)
pool_pushDelayed(p, time, task) ==
  LET list == p._timer_tasks
      smaller == {i \in 1..Len(list) : list[i].time < time}
      it == IF smaller = {} THEN Len(list) + 1
            ELSE CHOOSE i \in smaller : \A j \in smaller : i <= j
  IN  [p EXCEPT !._timer_tasks =
         SubSeq(list, 1, it - 1) \o <<Timer(time, task)>> \o SubSeq(list, it, Len(list))]

(* the loop of TaskPool::delay: from the entry at it down to the second     *)
(* entry, an entry with a greater time point than the one before it is      *)
(* swapped with it                                                          *)
RECURSIVE delay_pass(_, _)
delay_pass(list, it) ==
  IF it <= 1 THEN list
  ELSE delay_pass(IF list[it].time > list[it - 1].time
                    THEN [list EXCEPT ![it] = list[it - 1], ![it - 1] = list[it]]
                    ELSE list,
                  it - 1)

(* TaskPool::delay(task_id, duration) with time = now + duration *)
pool_delay(p, task_id, time) ==
  LET it == Position(p._timer_tasks, task_id)
  IN  IF it = 0 THEN p
      ELSE [p EXCEPT !._timer_tasks = delay_pass([@ EXCEPT ![it].time = time], it)]

(* TaskPool::cancel(task_id): the pool after *)
pool_cancel(p, task_id) ==
  LET it == Position(p._timer_tasks, task_id)
  IN  IF it = 0 THEN p ELSE [p EXCEPT !._timer_tasks = Erase(@, it)]

(* TaskPool::pop(task_id): the pool after.  The pair is moved from and      *)
(* stays in _timer_tasks, its task empty and its time point as it was.      *)
pool_pop_task(p, task_id) ==
  LET pos == Position(p._timer_tasks, task_id)
  IN  IF pos = 0 THEN p ELSE [p EXCEPT !._timer_tasks[pos].task = NullTask]

Back(list) == list[Len(list)]

(* TaskPool::ready() *)
pool_ready(p, t) ==
  \/ p._tasks # << >>
  \/ p._timer_tasks # << >> /\ Back(p._timer_tasks).time <= t

(* TaskPool::pop(): what it returns, as a call record *)
pool_pop_result(p, t) ==
  IF p._tasks # << >>
    THEN PoolCall("pop", NullTask, TRUE, Head(p._tasks), NoTime)
  ELSE IF p._timer_tasks # << >> /\ Back(p._timer_tasks).time <= t
    THEN PoolCall("pop", NullTask, TRUE, Back(p._timer_tasks).task,
                  Back(p._timer_tasks).time)
  ELSE PoolCall("pop", NullTask, FALSE, NullTask, NoTime)

(* TaskPool::pop(): the pool after *)
pool_pop(p, t) ==
  IF p._tasks # << >> THEN [p EXCEPT !._tasks = Tail(@)]
  ELSE IF p._timer_tasks # << >> /\ Back(p._timer_tasks).time <= t
    THEN [p EXCEPT !._timer_tasks = SubSeq(@, 1, Len(@) - 1)]
  ELSE p

(* The loops of delay and cancel evaluate &*task on every entry up to the   *)
(* one they look for.  On an entry whose task is empty that dereferences a  *)
(* null std::unique_ptr: the address compared is the null address, which    *)
(* matches no task id, or a library built with assertions ends the process. *)
DerefsEmpty(list, task_id) ==
  \E i \in 1..Len(list) :
     /\ list[i].task = NullTask
     /\ Position(list, task_id) = 0 \/ i < Position(list, task_id)

PoolAbort(op, task_id) ==
  [task_pool EXCEPT !.aborted = TRUE,
                    !.ret = PoolCall(op, task_id, FALSE, NullTask, NoTime)]

PoolStep(p) ==
  /\ ~task_pool.aborted
  /\ task_pool' = p
  /\ UNCHANGED <<controller_vars, queue, event, threads, shared, cipher,
                 session_state, mail>>

PoolPush ==
  /\ task_pool.created < MaxTasks
  /\ LET task == task_pool.created + 1
     IN  PoolStep([pool_push(task_pool, task) EXCEPT
                     !.created = task,
                     !.ret = PoolCall("push", task, TRUE, task, NoTime)])

(* TaskPool::pushDelayed(newTask, duration): returns the task id *)
PoolPushDelayed(duration) ==
  /\ task_pool.created < MaxTasks
  /\ LET task == task_pool.created + 1
     IN  PoolStep([pool_pushDelayed(task_pool, now + duration, task) EXCEPT
                     !.created = task,
                     !.ret = PoolCall("pushDelayed", task, TRUE, task, now + duration)])

PoolDelay(task_id, duration) ==
  \/ PoolStep([pool_delay(task_pool, task_id, now + duration) EXCEPT
                 !.ret = PoolCall("delay", task_id,
                                  Position(task_pool._timer_tasks, task_id) # 0,
                                  task_id, now + duration)])
  \/ /\ DerefsEmpty(task_pool._timer_tasks, task_id)
     /\ PoolStep(PoolAbort("delay", task_id))

PoolCancel(task_id) ==
  \/ PoolStep([pool_cancel(task_pool, task_id) EXCEPT
                 !.ret = PoolCall("cancel", task_id,
                                  Position(task_pool._timer_tasks, task_id) # 0,
                                  task_id, NoTime)])
  \/ /\ DerefsEmpty(task_pool._timer_tasks, task_id)
     /\ PoolStep(PoolAbort("cancel", task_id))

PoolPopTask(task_id) ==
  LET pos == Position(task_pool._timer_tasks, task_id)
  IN  PoolStep([pool_pop_task(task_pool, task_id) EXCEPT
                  !.ret = IF pos = 0
                            THEN PoolCall("pop(task_id)", task_id, FALSE, NullTask, NoTime)
                            ELSE PoolCall("pop(task_id)", task_id, TRUE, task_id,
                                          task_pool._timer_tasks[pos].time)])

PoolPop ==
  PoolStep([pool_pop(task_pool, now) EXCEPT !.ret = pool_pop_result(task_pool, now)])

PoolReady ==
  PoolStep([task_pool EXCEPT
              !.ret = PoolCall("ready", NullTask, pool_ready(task_pool, now),
                               NullTask, NoTime)])

(* TaskPool::next(): the time point of the back entry *)
PoolNext ==
  PoolStep([task_pool EXCEPT
              !.ret = IF task_pool._timer_tasks = << >>
                        THEN PoolCall("next", NullTask, FALSE, NullTask, NoTime)
                        ELSE PoolCall("next", NullTask, TRUE, NullTask,
                                      Back(task_pool._timer_tasks).time)])

PoolTick ==
  /\ now + 1000 <= MaxPoolTime
  /\ now' = now + 1000
  /\ UNCHANGED <<settings, sessions, session_states, ret, encoder, component_vars>>

(* SpecTaskPool: one pool, any sequence of calls as the clock advances *)
InitTaskPool ==
  /\ ControllerUnused
  /\ task_pool = PoolStart
  /\ queue = Unused /\ event = Unused /\ threads = Unused
  /\ shared = Unused /\ cipher = Unused /\ session_state = Unused
  /\ mail = Unused

NextTaskPool ==
  \/ PoolPush
  \/ \E duration \in Durations : PoolPushDelayed(duration)
  \/ \E task_id \in 1..MaxTasks, duration \in Durations : PoolDelay(task_id, duration)
  \/ \E task_id \in 1..MaxTasks : PoolCancel(task_id)
  \/ \E task_id \in 1..MaxTasks : PoolPopTask(task_id)
  \/ PoolPop
  \/ PoolReady
  \/ PoolNext
  \/ PoolTick

SpecTaskPool == InitTaskPool /\ [][NextTaskPool]_vars

(* the time points of the timer list do not increase from front to back *)
Ordered(list) ==
  \A i, j \in 1..Len(list) : i < j => list[i].time >= list[j].time

Earliest(list) == \A i \in 1..Len(list) : Back(list).time <= list[i].time

(* C34: the timer list is ordered by time point with the earliest task at   *)
(* its back, whatever calls have been made, delay() to an earlier or a      *)
(* later time among them                                                    *)
C34_TimerListStaysOrdered ==
  /\ Ordered(task_pool._timer_tasks)
  /\ task_pool._timer_tasks # << >> => Earliest(task_pool._timer_tasks)

(* C35: pop(task_id) of a task found in the timer queue returns it and      *)
(* erases its entry: the queue is one entry shorter and none of its         *)
(* entries is for that task, so that next(), ready() and pop() go by the    *)
(* remaining entries and cancel(task_id) finds nothing; and the pop of a    *)
(* task that is not in the queue returns nothing and changes nothing        *)
C35_PopTaskRemovesEntry ==
  [][\A task_id \in 1..MaxTasks :
       PoolPopTask(task_id) =>
         IF Position(task_pool._timer_tasks, task_id) = 0
           THEN /\ ~task_pool'.ret.has_value
                /\ task_pool'._timer_tasks = task_pool._timer_tasks
           ELSE /\ task_pool'.ret.has_value /\ task_pool'.ret.task = task_id
                /\ task_pool'._timer_tasks =
                     Erase(task_pool._timer_tasks,
                           Position(task_pool._timer_tasks, task_id))]_vars

(* C36: pop() returns a timer task only at or after its time point, it      *)
(* returns the immediate tasks first and in the order they were pushed,     *)
(* and ready() is true exactly when pop() at that instant returns a task    *)
C36_PopInOrderAndReadyAgrees ==
  LET popped == pool_pop_result(task_pool, now)
  IN  /\ popped.has_value /\ popped.time # NoTime => popped.time <= now
      /\ task_pool._tasks # << >> => popped.task = Head(task_pool._tasks)
      /\ pool_ready(task_pool, now) <=> (popped.has_value /\ popped.task # NullTask)

-----------------------------------------------------------------------------
(* safe::mail_raw_t and safe::post_t (src/src/thread_safe.h).               *)
(*                                                                          *)
(* The posts are numbered 1, 2, ... in the order they are created; NullPost *)
(* is a null std::shared_ptr.  use_count is the strong count of the post's  *)
(* control block: id_to_post holds a weak pointer, which is expired as      *)
(* soon as the count is 0.  The thread that drops the last reference runs   *)
(* ~post_t, which calls cleanup(): destroying is the post whose destructor  *)
(* a thread is in, before cleanup() has taken the mutex.  event(), queue()  *)
(* and cleanup() hold the mutex for their whole body: one step each.        *)

MaxPosts == 3          \* posts created by event() and queue()

MaxMailHeld == 2       \* references a thread holds at a time

NullPost == 0

Ids == {"x", "y"}

FirstId == "x"         \* std::map iterates in key order

NoPostYet == [returned |-> FALSE, post |-> NullPost]

MailStart ==
  [id_to_post |-> [id \in Ids |-> NullPost],
   posts |-> << >>,
   held |-> [t \in Threads |-> << >>],
   destroying |-> [t \in Threads |-> NullPost],
   ret |-> [t \in Threads |-> NoPostYet]]

(* weak.expired() of the entry registered under id *)
Expired(m, id) ==
  /\ m.id_to_post[id] # NullPost
  /\ m.posts[m.id_to_post[id]].use_count = 0

(* the thread takes a reference to post p and returns it *)
Share(m, t, p) ==
  [m EXCEPT !.posts[p].use_count = @ + 1,
            !.held[t] = Append(@, p),
            !.ret[t] = [returned |-> TRUE, post |-> p]]

(* mail_raw_t::event(id) and queue(id): the registry after the call.  An    *)
(* entry found is locked, and the lock of an expired weak pointer is null;  *)
(* with no entry a post of the kind is made and registered.                 *)
mail_post(m, t, id, kind) ==
  IF m.id_to_post[id] # NullPost
    THEN IF Expired(m, id)
           THEN [m EXCEPT !.ret[t] = [returned |-> TRUE, post |-> NullPost]]
           ELSE Share(m, t, m.id_to_post[id])
    ELSE LET post == Len(m.posts) + 1
         IN  Share([m EXCEPT !.posts = Append(@, [kind |-> kind, use_count |-> 0]),
                             !.id_to_post[id] = post],
                   t, post)

(* mail_raw_t::cleanup(): the first expired entry is erased *)
mail_cleanup(m) ==
  IF \E id \in Ids : Expired(m, id)
    THEN LET id == IF Expired(m, FirstId) THEN FirstId
                   ELSE CHOOSE i \in Ids : Expired(m, i)
         IN  [m EXCEPT !.id_to_post[id] = NullPost]
    ELSE m

MailStep(m) ==
  /\ mail' = m
  /\ UNCHANGED <<controller_vars, queue, event, threads, shared, cipher,
                 session_state, task_pool>>

MailCanCall(t, id) ==
  /\ mail.destroying[t] = NullPost
  /\ Len(mail.held[t]) < MaxMailHeld
  /\ mail.id_to_post[id] = NullPost => Len(mail.posts) < MaxPosts

MailEvent(t, id) ==
  /\ MailCanCall(t, id)
  /\ MailStep(mail_post(mail, t, id, "event"))

MailQueue(t, id) ==
  /\ MailCanCall(t, id)
  /\ MailStep(mail_post(mail, t, id, "queue"))

(* a thread lets go of the reference it took last; letting go of the last   *)
(* one of the post starts ~post_t                                           *)
MailDrop(t) ==
  /\ mail.destroying[t] = NullPost
  /\ mail.held[t] # << >>
  /\ LET p == mail.held[t][Len(mail.held[t])]
     IN  MailStep([mail EXCEPT
                     !.posts[p].use_count = @ - 1,
                     !.held[t] = SubSeq(@, 1, Len(@) - 1),
                     !.destroying[t] = IF mail.posts[p].use_count = 1
                                         THEN p ELSE NullPost])

(* ~post_t: cleanup(mail.get()) *)
MailCleanup(t) ==
  /\ mail.destroying[t] # NullPost
  /\ MailStep([mail_cleanup(mail) EXCEPT !.destroying[t] = NullPost])

(* SpecMail: two threads getting posts by id and letting go of them *)
InitMail ==
  /\ ControllerUnused
  /\ mail = MailStart
  /\ queue = Unused /\ event = Unused /\ threads = Unused
  /\ shared = Unused /\ cipher = Unused /\ session_state = Unused
  /\ task_pool = Unused

NextMail ==
  \E t \in Threads :
    \/ \E id \in Ids : MailEvent(t, id)
    \/ \E id \in Ids : MailQueue(t, id)
    \/ MailDrop(t)
    \/ MailCleanup(t)

SpecMail == InitMail /\ [][NextMail]_vars

(* C37: event(id) and queue(id) return the post registered under id when    *)
(* there is one and a newly created post otherwise, never a null pointer,   *)
(* whatever other threads do with their references to that post             *)
C37_PostNeverNull ==
  [][\A t \in Threads, id \in Ids :
       MailEvent(t, id) \/ MailQueue(t, id) =>
         /\ mail'.ret[t].post # NullPost
         /\ mail'.ret[t].post = IF mail.id_to_post[id] # NullPost
                                  THEN mail.id_to_post[id]
                                  ELSE Len(mail.posts) + 1]_vars

-----------------------------------------------------------------------------
(* C38: a ref() at count 0 whose construct callback fails hands out no      *)
(* reference (a null ptr_t), leaves the count at 0 and does not run the     *)
(* destruct callback; and a ref() at count 0 after such a failure runs the  *)
(* construct callback again.                                                *)
C38_FailedConstructLeavesCountZero ==
  /\ [][\A t \in Threads :
          SharedRef(t, TRUE) /\ shared._count = 0 =>
            /\ shared'._count = 0
            /\ shared'.held = shared.held
            /\ shared'.destructs = shared.destructs
            /\ shared'.constructs = shared.constructs + 1]_vars
  /\ [][\A t \in Threads, failed \in BOOLEAN :
          SharedRef(t, failed) /\ shared._count = 0 /\ shared.object = "raw" =>
            /\ shared'.constructs = shared.constructs + 1
            /\ ~failed => shared'.object = "constructed" /\ shared'._count = 1]_vars

(* the construct callback failed, and the ref() after it constructed the    *)
(* object: two runs of construct, none of destruct, one reference           *)
C38_Witness ==
  /\ shared.constructs = 2 /\ shared.destructs = 0
  /\ shared.object = "constructed" /\ shared._count = 1

-----------------------------------------------------------------------------
(* SpecQueueSizes: the queue of SpecQueue, constructed with any of the      *)
(* max_elements values 0..MaxElements                                       *)
InitQueueSizes ==
  /\ ControllerUnused
  /\ \E max_elements \in 0..MaxElements :
       queue = [QueueStart EXCEPT !._max_elements = max_elements]
  /\ threads = [t \in Threads |-> ThreadStart]
  /\ event = Unused /\ shared = Unused /\ cipher = Unused /\ session_state = Unused
  /\ task_pool = Unused /\ mail = Unused

SpecQueueSizes == InitQueueSizes /\ [][NextQueue]_vars

(* C39: whatever max_elements the queue was constructed with and whatever   *)
(* raise(), pop() and stop() calls were made, the queue holds at most       *)
(* max_elements elements                                                    *)
C39_SizeWithinMaxElements == Len(queue._queue) <= queue._max_elements

-----------------------------------------------------------------------------
(* SpecPair: two sessions "A" and "B" on one controller, any sequence of    *)
(* calls on either of them                                                  *)

MaxPairTime == 3000    \* one adjustment interval

PairSessions ==
  [s \in ReplaySessions |->
     IF s = "A" THEN DefaultSession ELSE [DefaultSession EXCEPT !.bitrate = 5000]]

PairLossInputs == {Whole(15)}

PairBitrateInputs == {7500}

InitPair ==
  /\ now = 0
  /\ settings = DefaultSettings
  /\ sessions = PairSessions
  /\ session_states = << >>
  /\ ret = NoCall
  /\ encoder = [s \in ReplaySessions |-> NoLog]
  /\ ComponentsUnused

(* a process_*, confirm_bitrate_change or reset call on session s *)
PairCall(s) ==
  \/ \E f \in LoopFrameInputs, i \in IntervalInputs : ProcessLossStats(s, f, i)
  \/ \E l \in PairLossInputs, f \in LoopFrameInputs : ProcessLossStatsDirect(s, l, f)
  \/ \E c \in StatusInputs : ProcessConnectionStatus(s, c)
  \/ \E x \in PairBitrateInputs, ok \in BOOLEAN : ConfirmBitrateChange(s, x, ok)
  \/ Reset(s)

PairQuery(s) ==
  \/ ShouldAdjustBitrate(s)
  \/ CalculateNewBitrate(s)
  \/ GetStats(s)

(* the clock advances by an adjustment interval *)
PairTick ==
  /\ now + DefaultSettings.adjustment_interval_ms <= MaxPairTime
  /\ now' = now + DefaultSettings.adjustment_interval_ms
  /\ ret' = NoCall
  /\ UNCHANGED <<settings, sessions, component_vars, session_states, encoder>>

NextPair ==
  \/ PairTick
  \/ \E s \in ReplaySessions : PairCall(s)
  \/ \E s \in ReplaySessions : PairQuery(s)

SpecPair == InitPair /\ [][NextPair]_vars

(* the controller state of session s and what its three queries return are *)
(* the same after the step as before it                                     *)
Untouched(s) ==
  /\ HasState(session_states', s) <=> HasState(session_states, s)
  /\ HasState(session_states, s) => session_states'[s] = session_states[s]
  /\ should_adjust_bitrate(session_states', s, now')
       = should_adjust_bitrate(session_states, s, now)
  /\ calculate_new_bitrate(session_states', s, now')
       = calculate_new_bitrate(session_states, s, now)
  /\ get_stats(session_states', s) = get_stats(session_states, s)

(* C40: a process_*, confirm_bitrate_change or reset call on one session    *)
(* leaves the controller state of every other session and the results of    *)
(* should_adjust_bitrate, calculate_new_bitrate and get_stats for it as     *)
(* they were                                                                *)
C40_SessionsIndependent ==
  [][\A a, b \in ReplaySessions : a # b /\ PairCall(a) => Untouched(b)]_vars

(* "B" has a state that is due for an adjustment, and "A" has been through  *)
(* a confirmed adjustment since "B" last was                                *)
C40_Witness ==
  /\ HasState(session_states, "A") /\ HasState(session_states, "B")
  /\ session_states["A"].adjustment_count = 1
  /\ session_states["B"].adjustment_count = 0
  /\ session_states["A"].current_bitrate_kbps # session_states["B"].current_bitrate_kbps
  /\ should_adjust_bitrate(session_states, "B", now)

=============================================================================
